---- MODULE Spec2Model ----
(***************************************************************************)
(* State-machine model of the NuriJangter crawler: the checkpoint store    *)
(* (src/checkpoint/manager.py), the deduplication store                    *)
(* (src/utils/deduplication.py), the per-item workflow                     *)
(* (src/crawler/processor.py, src/crawler/engine.py), the orchestrator     *)
(* (src/crawler/engine.py, main.py) and the retry pass                     *)
(* (src/crawler/engine.py, src/crawler/retry_manager.py).                  *)
(***************************************************************************)
EXTENDS Integers, Sequences, FiniteSets, TLC

\* ------------------------------------------------------------------ bounds
MaxRuns == 2          \* invocations of run() in one behaviour
MaxPages == 2         \* pagination.max_pages of the configuration
MaxRows == 2          \* rows the list parser returns for one page
SaveInterval == 2     \* checkpoint.save_interval of the configuration
MaxOps == 5           \* store operations in one behaviour of SpecCkpt
MaxThreshold == 3     \* largest crawler.early_exit_threshold of the configuration
MaxItems == 4         \* workflow invocations in one behaviour of SpecWorkflow
MaxCrawled == 3       \* rows the site serves in one behaviour of Spec
MaxCursor == 3        \* last page the loop turns from when max_pages is 0
MaxTarget == 23       \* largest page number pagination restore is asked for
MaxGroups == 3        \* page groups the pager of the site can have
MaxFetches == 2       \* detail fetches in one behaviour of SpecFetch
MaxDedupOps == 4      \* store operations in one behaviour of SpecDedup
MaxMaxAttempts == 4   \* largest max_attempts with_retry is given in SpecWithRetry

\* ------------------------------------------------------- program constants
MaxPageErrors == 10   \* engine.py: if self.stats['errors'] > 10
GroupSize == 10       \* navigator.py: ((target_page_num - 1) // 10) * 10 + 1

VARIABLES
    checkpoint_manager,   \* the CheckpointManager object (in memory)
    checkpoint_file,      \* crawler_checkpoint.json on disk
    temp_file,            \* crawler_checkpoint.tmp on disk
    save_pc,              \* position inside save_checkpoint: idle, opened, written
    dedup_manager,        \* the DeduplicationManager object (in memory)
    storage_file,         \* seen_items.json on disk
    collected_notices,    \* BidNoticeList.notices of the engine
    total_count,          \* BidNoticeList.total_count of the engine
    stats,                \* the engine's stats dict
    consecutive_duplicates,           \* CrawlerEngine.consecutive_duplicates
    processor_consecutive_duplicates, \* NoticeProcessor.consecutive_duplicates
    early_exit_threshold, \* CrawlerEngine.early_exit_threshold
    pc,                   \* position of the process inside run()
    current_page_num,     \* local of _crawl_list_pages
    idx,                  \* rows of the current page already handled
    runs,                 \* invocations of run() so far
    sinks,                \* every batch handed to the storage sinks, in order
    raised,               \* what run() raised to its caller: none or the exception
    max_pages,            \* pagination.max_pages of the configuration (0: no limit)
    browser_page,         \* the listing page the browser shows (0: no list loaded)
    failed_items,         \* local of the retry pass: the failed entries it walks
    detail_tabs,          \* detail tabs open in the browser context
    stats_reports,        \* "Crawl Statistics" blocks run_crawler wrote to the log
    hist                  \* history of the last steps (observation only)

vars == <<checkpoint_manager, checkpoint_file, temp_file, save_pc, dedup_manager,
          storage_file, collected_notices, total_count, stats, consecutive_duplicates,
          processor_consecutive_duplicates, early_exit_threshold, pc,
          current_page_num, idx, runs, sinks, raised, max_pages, browser_page,
          failed_items, detail_tabs, stats_reports, hist>>

\* ------------------------------------------------------------ small helpers
EmptyDict == << >>

DictSet(d, k, v) == [x \in (DOMAIN d) \cup {k} |-> IF x = k THEN v ELSE d[x]]

DictGet(d, k, default) == IF k \in DOMAIN d THEN d[k] ELSE default

Range(s) == {s[i] : i \in DOMAIN s}

\* datetime.now().isoformat(): one opaque instant
Now == "2024-01-01T00:00:00"

\* ------------------------------------------------------------------- files
\* A file is absent, truncated (opened for writing, or cut short by a kill:
\* json.load raises on it) or holds one complete JSON document.
NoFile == [kind |-> "absent"]
Truncated == [kind |-> "truncated"]
JsonFile(doc) == [kind |-> "json", data |-> doc]

\* --------------------------------------------------------------- CrawlState
CrawlState == {"INITIALIZED", "IN_PROGRESS", "PAUSED", "COMPLETED", "FAILED"}

\* CrawlState.X.value
StateValue(s) ==
    CASE s = "INITIALIZED" -> "initialized"
      [] s = "IN_PROGRESS" -> "in_progress"
      [] s = "PAUSED" -> "paused"
      [] s = "COMPLETED" -> "completed"
      [] s = "FAILED" -> "failed"

\* a conversion that takes an unknown value for INITIALIZED
CrawlStateOf_lenient(v) ==
    IF \E s \in CrawlState : StateValue(s) = v
    THEN CHOOSE s \in CrawlState : StateValue(s) = v
    ELSE "INITIALIZED"

\* CrawlState(value): the member with that value, ValueError otherwise
CrawlStateOf(v) ==
    IF \E s \in CrawlState : StateValue(s) = v
    THEN CHOOSE s \in CrawlState : StateValue(s) = v
    ELSE "ValueError"

\* ------------------------------------------------------- CheckpointManager
\* CheckpointManager.__init__
NewCheckpointManager ==
    [state |-> "INITIALIZED",
     current_page |-> 1,
     processed_items |-> << >>,
     failed_items |-> << >>,
     statistics |-> EmptyDict,
     metadata |-> EmptyDict,
     save_interval |-> SaveInterval,
     items_since_save |-> 0]

\* CheckpointManager.initialize_crawl
initialize_crawl(cm, metadata) ==
    [cm EXCEPT !.state = "IN_PROGRESS",
               !.current_page = 1,
               !.processed_items = << >>,
               !.failed_items = << >>,
               !.statistics = [k \in {"start_time", "total_processed",
                                      "total_failed", "pages_crawled"} |->
                                 CASE k = "start_time" -> Now
                                   [] OTHER -> 0],
               !.metadata = metadata,
               !.items_since_save = 0]

\* the dict save_checkpoint serialises (state as its enum value)
CheckpointData(cm) ==
    [state |-> StateValue(cm.state),
     current_page |-> cm.current_page,
     processed_items |-> cm.processed_items,
     failed_items |-> cm.failed_items,
     statistics |-> cm.statistics,
     metadata |-> cm.metadata,
     last_updated |-> Now]

\* load_checkpoint that forgets to restore failed_items
load_checkpoint_without_failed(cm, file) ==
    IF file.kind # "json" \/ CrawlStateOf(file.data.state) = "ValueError"
    THEN [found |-> FALSE, cm |-> cm]
    ELSE [found |-> TRUE,
          cm |-> [cm EXCEPT !.state = CrawlStateOf(file.data.state),
                            !.current_page = file.data.current_page,
                            !.processed_items = file.data.processed_items,
                            !.statistics = file.data.statistics,
                            !.metadata = file.data.metadata]]

\* CheckpointManager.load_checkpoint: [found, cm]
load_checkpoint(cm, file) ==
    IF file.kind = "absent"
    THEN [found |-> FALSE, cm |-> cm]
    ELSE IF file.kind # "json" \/ CrawlStateOf(file.data.state) = "ValueError"
    THEN [found |-> FALSE, cm |-> cm]
    ELSE [found |-> TRUE,
          cm |-> [cm EXCEPT !.state = CrawlStateOf(file.data.state),
                            !.current_page = file.data.current_page,
                            !.processed_items = file.data.processed_items,
                            !.failed_items = file.data.failed_items,
                            !.statistics = file.data.statistics,
                            !.metadata = file.data.metadata]]

\* a guard that lets the counter pass the interval before it saves
save_wanted_late(cm, force) == force \/ cm.items_since_save > cm.save_interval

\* save_checkpoint, the guard of its first line
save_wanted(cm, force) == force \/ cm.items_since_save >= cm.save_interval

\* save_checkpoint that opens the checkpoint file itself for writing
save_open_in_place(file, temp) == [file |-> Truncated, temp |-> Truncated]

\* save_checkpoint, open(temp_file, 'w'): [file, temp]
save_open(file, temp) == [file |-> file, temp |-> Truncated]

\* save_checkpoint, json.dump(data, f) into the open temporary file: [file, temp]
save_dump(cm, file, temp) == [file |-> file, temp |-> JsonFile(CheckpointData(cm))]

\* save_checkpoint, temp_file.replace(checkpoint_file): [file, temp]
save_replace(file, temp) == [file |-> temp, temp |-> NoFile]

\* CheckpointManager.save_checkpoint, the whole call: [cm, file, temp]
save_checkpoint(cm, file, temp, force) ==
    IF ~save_wanted(cm, force)
    THEN [cm |-> cm, file |-> file, temp |-> temp]
    ELSE LET o == save_open(file, temp)
             d == save_dump(cm, o.file, o.temp)
             r == save_replace(d.file, d.temp)
         IN [cm |-> [cm EXCEPT !.items_since_save = 0],
             file |-> r.file, temp |-> r.temp]

\* mark_item_processed up to the auto-save test
mark_item_processed_mem(cm, item_id) ==
    LET items == Append(cm.processed_items, item_id)
    IN [cm EXCEPT !.processed_items = items,
                  !.statistics = DictSet(cm.statistics, "total_processed", Len(items)),
                  !.items_since_save = cm.items_since_save + 1]

\* CheckpointManager.mark_item_processed: [cm, file, temp]
mark_item_processed(cm, file, temp, item_id) ==
    save_checkpoint(mark_item_processed_mem(cm, item_id), file, temp, FALSE)

\* CheckpointManager.mark_item_failed (called without details by the crawler)
mark_item_failed(cm, item_id, error) ==
    LET items == Append(cm.failed_items,
                        [item_id |-> item_id, error |-> error, timestamp |-> Now])
    IN [cm EXCEPT !.failed_items = items,
                  !.statistics = DictSet(cm.statistics, "total_failed", Len(items))]

\* CheckpointManager.remove_failed_item: [cm, file, temp]
remove_failed_item(cm, file, temp, item_id) ==
    LET kept == SelectSeq(cm.failed_items, LAMBDA e : e.item_id # item_id)
    IN IF Len(kept) < Len(cm.failed_items)
       THEN save_checkpoint([cm EXCEPT
                                !.failed_items = kept,
                                !.statistics = DictSet(cm.statistics, "total_failed",
                                                       Len(kept))],
                            file, temp, TRUE)
       ELSE [cm |-> cm, file |-> file, temp |-> temp]

\* CheckpointManager.get_failed_items
get_failed_items(cm) == cm.failed_items

\* CheckpointManager.is_item_processed
is_item_processed(cm, item_id) == item_id \in Range(cm.processed_items)

\* CheckpointManager.advance_page
advance_page(cm) ==
    [cm EXCEPT !.current_page = cm.current_page + 1,
               !.statistics = DictSet(cm.statistics, "pages_crawled", cm.current_page)]

\* CheckpointManager.set_state
set_state(cm, state) == [cm EXCEPT !.state = state]

\* complete_crawl up to its final save
complete_crawl_mem(cm, success) ==
    LET st == DictSet(cm.statistics, "end_time", Now)
    IN [cm EXCEPT !.state = IF success THEN "COMPLETED" ELSE "FAILED",
                  !.statistics = IF "start_time" \in DOMAIN st
                                 THEN DictSet(st, "duration_seconds", 0)
                                 ELSE st]

\* CheckpointManager.complete_crawl: [cm, file, temp]
complete_crawl(cm, file, temp, success) ==
    save_checkpoint(complete_crawl_mem(cm, success), file, temp, TRUE)

\* ------------------------------------------------------------------- items
\* bid notice numbers the list parser can return: "A1 " and "a1" differ as
\* identifiers and agree once trimmed and case-folded
ItemIds == {"a1", "A1 ", "b2", "c3"}

\* str(e) of the exceptions an item can fail with
ErrorMessages == {"Failed to open detail page", "Validation Failed",
                  "validation error for BidNotice", "too many missing fields"}

\* the part of the checkpoint the claims compare
CheckpointView(cm) ==
    [state |-> cm.state,
     current_page |-> cm.current_page,
     processed_items |-> cm.processed_items,
     failed_items |-> cm.failed_items,
     statistics |-> cm.statistics]

\* ----------------------------------------------------- DeduplicationManager
\* the characters of the strings that occur as key-field values
Chars(v) ==
    CASE v = "a1" -> <<"a", "1">>
      [] v = "A1 " -> <<"A", "1", " ">>
      [] v = "b2" -> <<"b", "2">>
      [] v = "c3" -> <<"c", "3">>
      [] v = "x" -> <<"x">>
      [] v = "X " -> <<"X", " ">>
      [] v = "x|y" -> <<"x", "|", "y">>
      [] v = "z" -> <<"z">>
      [] v = "y|z" -> <<"y", "|", "z">>
      [] OTHER -> << >>

\* str.lower on one character
LowerChar(c) == CASE c = "A" -> "a" [] c = "B" -> "b" [] c = "X" -> "x" [] OTHER -> c

RECURSIVE lstrip(_)
lstrip(cs) == IF cs # << >> /\ Head(cs) = " " THEN lstrip(Tail(cs)) ELSE cs

RECURSIVE rstrip(_)
rstrip(cs) ==
    IF cs # << >> /\ cs[Len(cs)] = " " THEN rstrip(SubSeq(cs, 1, Len(cs) - 1)) ELSE cs

RECURSIVE ConcatChars(_)
ConcatChars(cs) == IF cs = << >> THEN "" ELSE Head(cs) \o ConcatChars(Tail(cs))

\* the values of the key fields other than the identifiers of the crawl
KeyValues == {"x", "X ", "x|y", "z", "y|z"}

\* Python's None as the value of a field
None == "None"

\* str(value).strip().lower(), for every value that occurs
Normalized ==
    [v \in ItemIds \cup KeyValues \cup {""} |->
        LET t == rstrip(lstrip(Chars(v)))
        IN ConcatChars([i \in DOMAIN t |-> LowerChar(t[i])])]

\* a normalisation that keeps the case
normalize_cased(v) == ConcatChars(rstrip(lstrip(Chars(v))))

\* str(value).strip().lower()
normalize(v) == Normalized[v]

\* "|".join(key_values)
RECURSIVE JoinKeys(_)
JoinKeys(vals) ==
    IF vals = << >> THEN ""
    ELSE IF Len(vals) = 1 THEN vals[1]
    ELSE vals[1] \o "|" \o JoinKeys(Tail(vals))

\* item.get(field)
ItemRaw(item, field) == IF field \in DOMAIN item THEN item[field] ELSE None

\* item.get(field, ""), None read as ""
ItemGet(item, field) ==
    IF field \in DOMAIN item /\ item[field] # None THEN item[field] ELSE ""

\* hashlib.sha256(key_string).hexdigest(), taken as collision-free
sha256(key_string) == "sha256:" \o key_string

\* DeduplicationManager._generate_hash
generate_hash(dm, item) ==
    sha256(JoinKeys([i \in DOMAIN dm.key_fields |->
                        normalize(ItemGet(item, dm.key_fields[i]))]))

\* DeduplicationManager.is_duplicate
is_duplicate(dm, item) ==
    IF ~dm.enabled THEN FALSE ELSE generate_hash(dm, item) \in dm.seen_hashes

\* a store that records whether it is enabled or not
mark_as_seen_when_disabled(dm, item) ==
    LET h == generate_hash(dm, item)
        key_info == [i \in DOMAIN dm.key_fields |-> ItemRaw(item, dm.key_fields[i])]
    IN [dm EXCEPT !.seen_hashes = @ \cup {h},
                  !.seen_items = DictSet(@, h, key_info)]

\* DeduplicationManager.mark_as_seen
mark_as_seen(dm, item) ==
    IF ~dm.enabled THEN dm
    ELSE LET h == generate_hash(dm, item)
             key_info == [i \in DOMAIN dm.key_fields |-> ItemRaw(item, dm.key_fields[i])]
         IN [dm EXCEPT !.seen_hashes = @ \cup {h},
                       !.seen_items = DictSet(@, h, key_info)]

\* DeduplicationManager.save: the new content of the storage file
dedup_save(dm, file) ==
    IF ~dm.enabled THEN file
    ELSE JsonFile([key_fields |-> dm.key_fields, seen_items |-> dm.seen_items])

\* a store that loads whatever fingerprints the file holds
NewDeduplicationManager_unverified(key_fields, enabled, file) ==
    LET empty == [key_fields |-> key_fields, enabled |-> enabled,
                  seen_hashes |-> {}, seen_items |-> EmptyDict]
    IN IF ~enabled \/ file.kind # "json" THEN empty
       ELSE [empty EXCEPT !.seen_items = file.data.seen_items,
                          !.seen_hashes = DOMAIN file.data.seen_items]

\* DeduplicationManager.__init__ with _load_seen_items
NewDeduplicationManager(key_fields, enabled, file) ==
    LET empty == [key_fields |-> key_fields, enabled |-> enabled,
                  seen_hashes |-> {}, seen_items |-> EmptyDict]
    IN IF ~enabled \/ file.kind # "json" THEN empty
       ELSE IF file.data.key_fields # key_fields THEN empty
       ELSE [empty EXCEPT !.seen_items = file.data.seen_items,
                          !.seen_hashes = DOMAIN file.data.seen_items]

\* deduplication.key_fields of the configuration (its default)
KeyFields == <<"bid_notice_number">>

\* ------------------------------------------------------ the item workflow
CriticalFields == {"budget_amount", "base_price", "opening_date",
                   "pre_qualification", "contract_bond"}

\* the gate's threshold: if null_count >= 4 and not bid_notice.notes
QualityGateMin == 4

\* raw rows of the list parser: the identifier, the detail marker, which
\* critical fields are non-empty, whether a note is present, and whether
\* BidNotice(**row) and the fallback BidNotice(...) validate
Rows ==
    {r \in [bid_notice_number : ItemIds,
            has_detail : BOOLEAN,
            filled : {{}, {"opening_date", "budget_amount"}},
            notes : {FALSE},
            valid : BOOLEAN,
            fallback_valid : BOOLEAN] :
        r.valid => r.fallback_valid}

\* what the detail fetch does: raises, hands back the row as it was (row
\* or link not found), or returns enriched data whose opening_date is set
FetchOutcomes ==
    [kind : {"raise"}, error : {"Failed to open detail page"}]
    \cup [kind : {"base"}]
    \cup [kind : {"detail"},
          filled : {{"opening_date"}, {"opening_date", "budget_amount"}},
          notes : BOOLEAN,
          valid : {TRUE}]

\* the fetch outcomes that matter for a row: none is consulted without a
\* detail marker
FetchFor(notice_data) ==
    IF notice_data.has_detail THEN FetchOutcomes ELSE {[kind |-> "base"]}

\* the objects one workflow invocation works on
Workflow(cm, file, temp, dm, collected, total, st, consecutive) ==
    [cm |-> cm, file |-> file, temp |-> temp, dm |-> dm, collected |-> collected,
     total_count |-> total, stats |-> st, consecutive |-> consecutive,
     fetched |-> FALSE, raised_at |-> "none", error |-> ""]

\* a skip of a processed item that counts it as a duplicate too
skip_processed_counted(w) ==
    [w EXCEPT !.stats.items_skipped = @ + 1, !.consecutive = @ + 1]

\* process_notice: already processed
skip_processed(w) == [w EXCEPT !.stats.items_skipped = @ + 1]

\* a skip of a duplicate that does not mark the item processed
skip_duplicate_unmarked(w, notice_data) ==
    [w EXCEPT !.stats.items_skipped = @ + 1, !.consecutive = @ + 1]

\* process_notice: duplicate
skip_duplicate(w, notice_data) ==
    LET m == mark_item_processed(w.cm, w.file, w.temp, notice_data.bid_notice_number)
    IN [w EXCEPT !.stats.items_skipped = @ + 1,
                 !.cm = m.cm, !.file = m.file, !.temp = m.temp,
                 !.consecutive = @ + 1]

\* a workflow that leaves the counter alone when it meets a new item
reset_counter_kept(w) == w

\* process_notice: a new item resets the counter
reset_counter(w) == [w EXCEPT !.consecutive = 0]

\* process_notice: the detail fetch is called for a row with a detail marker
call_fetch(w, notice_data) == [w EXCEPT !.fetched = notice_data.has_detail]

\* process_notice: the data the record is built from, or the exception of the fetch
full_data_of(notice_data, fetch) ==
    IF ~notice_data.has_detail \/ fetch.kind = "base"
    THEN [ok |-> TRUE, filled |-> notice_data.filled, notes |-> notice_data.notes,
          valid |-> notice_data.valid]
    ELSE IF fetch.kind = "raise"
    THEN [ok |-> FALSE, error |-> fetch.error]
    ELSE [ok |-> TRUE, filled |-> fetch.filled, notes |-> fetch.notes,
          valid |-> fetch.valid]

\* process_notice: BidNotice(**full_data), else the minimal fallback record
construct_bid_notice(notice_data, full_data) ==
    IF full_data.valid
    THEN [ok |-> TRUE,
          bid_notice |-> [bid_notice_number |-> notice_data.bid_notice_number,
                          filled |-> full_data.filled, notes |-> full_data.notes]]
    ELSE IF notice_data.fallback_valid
    THEN [ok |-> TRUE,
          bid_notice |-> [bid_notice_number |-> notice_data.bid_notice_number,
                          filled |-> {}, notes |-> FALSE]]
    ELSE [ok |-> FALSE, error |-> "validation error for BidNotice"]

\* process_notice: how many critical fields are empty
null_count(bid_notice) == Cardinality(CriticalFields \ bid_notice.filled)

\* a gate that rejects from 3 empty critical fields on
quality_gate_rejects_from_three(bid_notice) ==
    null_count(bid_notice) >= QualityGateMin - 1 /\ ~bid_notice.notes

\* process_notice: the quality gate
quality_gate_rejects(bid_notice) ==
    null_count(bid_notice) >= QualityGateMin /\ ~bid_notice.notes

\* BidNoticeList.add_notice
add_notice(w, bid_notice) ==
    [w EXCEPT !.collected = Append(@, [bid_notice_number |-> bid_notice.bid_notice_number]),
              !.total_count = Len(w.collected) + 1]

\* collected_notices.notices.pop()
pop_notice(w) == [w EXCEPT !.collected = SubSeq(@, 1, Len(@) - 1)]

\* process_notice: count, mark as seen, mark as processed
commit(w, notice_data) ==
    LET m == mark_item_processed(w.cm, w.file, w.temp, notice_data.bid_notice_number)
    IN [w EXCEPT !.stats.items_extracted = @ + 1,
                 !.dm = mark_as_seen(w.dm, notice_data),
                 !.cm = m.cm, !.file = m.file, !.temp = m.temp]

\* a handler that counts the error and records no failed item
record_failure_unrecorded(w, notice_data, step, error) ==
    [w EXCEPT !.stats.errors = @ + 1,
              !.raised_at = step,
              !.error = error]

\* process_notice: except Exception as e
record_failure(w, notice_data, step, error) ==
    [w EXCEPT !.cm = mark_item_failed(w.cm, notice_data.bid_notice_number, error),
              !.stats.errors = @ + 1,
              !.raised_at = step,
              !.error = error]

\* NoticeProcessor.process_notice
process_notice(w, notice_data, fetch) ==
    IF is_item_processed(w.cm, notice_data.bid_notice_number) THEN skip_processed(w)
    ELSE IF is_duplicate(w.dm, notice_data) THEN skip_duplicate(w, notice_data)
    ELSE LET w0 == call_fetch(reset_counter(w), notice_data)
             fd == full_data_of(notice_data, fetch)
         IN IF ~fd.ok THEN record_failure(w0, notice_data, "fetch", fd.error)
            ELSE LET c == construct_bid_notice(notice_data, fd)
                 IN IF ~c.ok THEN record_failure(w0, notice_data, "construct", c.error)
                    ELSE LET w1 == add_notice(w0, c.bid_notice)
                         IN IF quality_gate_rejects(c.bid_notice)
                            THEN record_failure(pop_notice(w1), notice_data, "gate",
                                                "too many missing fields")
                            ELSE commit(w1, notice_data)

\* CrawlerEngine._process_notice
engine_process_notice(w, notice_data, fetch) ==
    IF is_item_processed(w.cm, notice_data.bid_notice_number) THEN skip_processed(w)
    ELSE IF is_duplicate(w.dm, notice_data) THEN skip_duplicate(w, notice_data)
    ELSE LET w0 == call_fetch(reset_counter(w), notice_data)
             fd == full_data_of(notice_data, fetch)
         IN IF ~fd.ok THEN record_failure(w0, notice_data, "fetch", fd.error)
            ELSE LET c == construct_bid_notice(notice_data, fd)
                 IN IF ~c.ok THEN record_failure(w0, notice_data, "construct", c.error)
                    ELSE commit(add_notice(w0, c.bid_notice), notice_data)

\* ===================================================================
\* SpecCkpt: the checkpoint store alone, save_checkpoint taken step by step
\* so that the process can be killed between its file operations.
\* ===================================================================
CkptOther == <<stats_reports, dedup_manager, storage_file, collected_notices, total_count, stats,
               consecutive_duplicates, processor_consecutive_duplicates,
               early_exit_threshold, pc, current_page_num, idx, runs, sinks, raised,
               max_pages, browser_page,
               failed_items, detail_tabs>>

CkptHist0 ==
    [n |-> 0, phase |-> "none", forced |-> FALSE, found |-> FALSE,
     last_good |-> NoFile, snap |-> CheckpointView(NewCheckpointManager),
     req |-> "none"]

\* the call that enters save_checkpoint: from mark_item_processed, or a
\* save_checkpoint of its own, forced or not
SaveRequest(cm, force) ==
    IF cm # checkpoint_manager THEN "mark" ELSE IF force THEN "forced" ELSE "unforced"

\* control enters save_checkpoint with cm: either it returns at once or it
\* opens the temporary file
CkEnterSave(cm, force) ==
    IF save_wanted(cm, force)
    THEN LET o == save_open(checkpoint_file, temp_file)
         IN /\ checkpoint_manager' = cm
            /\ checkpoint_file' = o.file
            /\ temp_file' = o.temp
            /\ save_pc' = "opened"
            /\ hist' = [hist EXCEPT !.n = @ + 1, !.phase = "none", !.forced = force,
                                    !.last_good = checkpoint_file,
                                    !.req = SaveRequest(cm, force)]
    ELSE /\ checkpoint_manager' = cm
         /\ UNCHANGED <<checkpoint_file, temp_file, save_pc>>
         /\ hist' = [hist EXCEPT !.n = @ + 1, !.phase = "none",
                                 !.req = SaveRequest(cm, force)]

CkInitializeCrawl ==
    /\ save_pc = "idle" /\ hist.n < MaxOps
    /\ checkpoint_manager' = initialize_crawl(checkpoint_manager, EmptyDict)
    /\ hist' = [hist EXCEPT !.n = @ + 1, !.phase = "none", !.req = "other"]
    /\ UNCHANGED <<checkpoint_file, temp_file, save_pc>>
    /\ UNCHANGED CkptOther

CkMarkItemProcessed ==
    /\ save_pc = "idle" /\ hist.n < MaxOps
    /\ \E item_id \in {"a1", "b2"} :
          CkEnterSave(mark_item_processed_mem(checkpoint_manager, item_id), FALSE)
    /\ UNCHANGED CkptOther

CkMarkItemFailed ==
    /\ save_pc = "idle" /\ hist.n < MaxOps
    /\ \E item_id \in {"a1", "b2"}, error \in {"Validation Failed"} :
          checkpoint_manager' = mark_item_failed(checkpoint_manager, item_id, error)
    /\ hist' = [hist EXCEPT !.n = @ + 1, !.phase = "none", !.req = "other"]
    /\ UNCHANGED <<checkpoint_file, temp_file, save_pc>>
    /\ UNCHANGED CkptOther

CkAdvancePage ==
    /\ save_pc = "idle" /\ hist.n < MaxOps
    /\ checkpoint_manager' = advance_page(checkpoint_manager)
    /\ hist' = [hist EXCEPT !.n = @ + 1, !.phase = "none", !.req = "other"]
    /\ UNCHANGED <<checkpoint_file, temp_file, save_pc>>
    /\ UNCHANGED CkptOther

CkSaveCheckpoint ==
    /\ save_pc = "idle" /\ hist.n < MaxOps
    /\ \E force \in BOOLEAN : CkEnterSave(checkpoint_manager, force)
    /\ UNCHANGED CkptOther

CkSaveDump ==
    /\ save_pc = "opened"
    /\ LET d == save_dump(checkpoint_manager, checkpoint_file, temp_file)
       IN /\ checkpoint_file' = d.file
          /\ temp_file' = d.temp
    /\ save_pc' = "written"
    /\ UNCHANGED <<checkpoint_manager, hist>>
    /\ UNCHANGED CkptOther

CkSaveReplace ==
    /\ save_pc = "written"
    /\ LET r == save_replace(checkpoint_file, temp_file)
       IN /\ checkpoint_file' = r.file
          /\ temp_file' = r.temp
    /\ checkpoint_manager' = [checkpoint_manager EXCEPT !.items_since_save = 0]
    /\ save_pc' = "idle"
    /\ hist' = [hist EXCEPT !.phase = IF hist.forced THEN "saved" ELSE "none",
                            !.snap = CheckpointView(checkpoint_manager)]
    /\ UNCHANGED CkptOther

\* the process ends (killed at any point, or it exits) and the next one
\* constructs a fresh store over the same directory
CkRestart ==
    /\ hist.phase \notin {"fresh", "killed_in_save"}
    /\ checkpoint_manager' = NewCheckpointManager
    /\ save_pc' = "idle"
    /\ hist' = [hist EXCEPT !.phase = IF save_pc # "idle" THEN "killed_in_save"
                                      ELSE IF hist.phase = "saved" THEN "fresh"
                                      ELSE "none",
                            !.req = "other"]
    /\ UNCHANGED <<checkpoint_file, temp_file>>
    /\ UNCHANGED CkptOther

CkLoadCheckpoint ==
    /\ save_pc = "idle"
    /\ hist.phase \in {"fresh", "killed_in_save"}
    /\ LET r == load_checkpoint(checkpoint_manager, checkpoint_file)
       IN /\ checkpoint_manager' = r.cm
          /\ hist' = [hist EXCEPT !.found = r.found,
                                  !.phase = IF hist.phase = "fresh" THEN "roundtrip"
                                            ELSE "recovered",
                                  !.req = "other"]
    /\ UNCHANGED <<checkpoint_file, temp_file, save_pc>>
    /\ UNCHANGED CkptOther

InitCkpt ==
    /\ checkpoint_manager = NewCheckpointManager
    /\ checkpoint_file = NoFile
    /\ temp_file = NoFile
    /\ save_pc = "idle"
    /\ dedup_manager = NewDeduplicationManager(KeyFields, TRUE, NoFile)
    /\ storage_file = NoFile
    /\ collected_notices = << >>
    /\ total_count = 0
    /\ stats = [pages_crawled |-> 0, items_extracted |-> 0, items_skipped |-> 0, errors |-> 0]
    /\ consecutive_duplicates = 0
    /\ processor_consecutive_duplicates = 0
    /\ early_exit_threshold = MaxThreshold
    /\ pc = "idle"
    /\ current_page_num = 1
    /\ idx = 0
    /\ runs = 0
    /\ sinks = << >>
    /\ raised = "none"
    /\ max_pages = MaxPages
    /\ failed_items = << >>
    /\ detail_tabs = 0
    /\ stats_reports = 0
    /\ browser_page = 0
    /\ hist = CkptHist0

NextCkpt ==
    \/ CkInitializeCrawl
    \/ CkMarkItemProcessed
    \/ CkMarkItemFailed
    \/ CkAdvancePage
    \/ CkSaveCheckpoint
    \/ CkSaveDump
    \/ CkSaveReplace
    \/ CkRestart
    \/ CkLoadCheckpoint

SpecCkpt == InitCkpt /\ [][NextCkpt]_vars

\* C1: a kill at any point of save_checkpoint leaves the checkpoint file as it
\* was when the save began (never truncated), and a load by the next process
\* then succeeds with exactly the previously committed content.
C1_AtomicSave ==
    /\ checkpoint_file.kind # "truncated"
    /\ (save_pc # "idle" => checkpoint_file = hist.last_good)
    /\ (hist.phase = "killed_in_save" => checkpoint_file = hist.last_good)
    /\ (hist.phase = "recovered" /\ hist.last_good.kind = "json" =>
          /\ hist.found
          /\ checkpoint_file = hist.last_good
          /\ [CheckpointData(checkpoint_manager) EXCEPT !.last_updated = Now]
               = hist.last_good.data)
    /\ (hist.phase = "recovered" /\ hist.last_good.kind = "absent" => ~hist.found)

\* C1 witness: killed after the temporary file was written and before the
\* replace, with a committed checkpoint that differs from the temporary file
C1_Witness ==
    /\ hist.phase = "recovered"
    /\ hist.found
    /\ temp_file.kind = "json"
    /\ checkpoint_file.kind = "json"
    /\ temp_file.data.processed_items # checkpoint_file.data.processed_items

\* C2: after any calls of markItemProcessed, markItemFailed and advancePage,
\* a forced save and a load in a fresh store give back the same state,
\* currentPage, processedItemIds, failedItems and statistics.
C2_RoundTrip ==
    hist.phase = "roundtrip" =>
        /\ hist.found
        /\ CheckpointView(checkpoint_manager) = hist.snap

\* C2 witness: a round trip of a checkpoint that holds processed ids, failed
\* items and an advanced page
C2_Witness ==
    /\ hist.phase = "roundtrip"
    /\ checkpoint_manager.state = "IN_PROGRESS"
    /\ Len(checkpoint_manager.processed_items) >= 1
    /\ Len(checkpoint_manager.failed_items) >= 1
    /\ checkpoint_manager.current_page >= 2

\* how many processed ids of the store the checkpoint file does not hold
MissingFromFile(cm, file) ==
    LET filed == IF file.kind = "json" THEN file.data.processed_items ELSE << >>
    IN Cardinality({i \in DOMAIN cm.processed_items :
                       i > Len(filed) \/ filed[i] # cm.processed_items[i]})

\* C22: with save interval N, a save that is not forced is entered only
\* with N items marked since the last write, and mark_item_processed enters
\* it as soon as the count is N; a forced save is always entered; the write
\* resets the count; so between calls the count is below N and at most N-1
\* processed ids are missing from the checkpoint file.
C22_SaveThrottling ==
    /\ (save_pc # "idle" /\ ~hist.forced) =>
          checkpoint_manager.items_since_save = checkpoint_manager.save_interval
    /\ (save_pc = "idle" /\ hist.req = "forced") =>
          /\ hist.phase = "saved"
          /\ checkpoint_manager.items_since_save = 0
    /\ save_pc = "idle" =>
          /\ checkpoint_manager.items_since_save < checkpoint_manager.save_interval
          /\ MissingFromFile(checkpoint_manager, checkpoint_file)
                <= checkpoint_manager.save_interval - 1

\* C22 witness: mark_item_processed returned without a write, one short of
\* the interval, after an earlier write that it triggered
C22_Witness ==
    /\ save_pc = "idle"
    /\ hist.req = "mark"
    /\ checkpoint_file.kind = "json"
    /\ Len(checkpoint_file.data.processed_items) = checkpoint_manager.save_interval
    /\ checkpoint_manager.items_since_save = checkpoint_manager.save_interval - 1
    /\ MissingFromFile(checkpoint_manager, checkpoint_file)
          = checkpoint_manager.save_interval - 1

\* C25: a mark_item_processed call or a save leaves the previous
\* processed_items as a prefix of the new sequence, and after a
\* mark_item_processed call no item id occurs in the sequence more than once.
C25_ProcessedItemsAppendOnlyUnique ==
    [][/\ hist'.req \in {"mark", "forced", "unforced"} =>
             /\ Len(checkpoint_manager.processed_items)
                   <= Len(checkpoint_manager'.processed_items)
             /\ SubSeq(checkpoint_manager'.processed_items, 1,
                       Len(checkpoint_manager.processed_items))
                   = checkpoint_manager.processed_items
       /\ hist'.req = "mark" =>
             Cardinality(Range(checkpoint_manager'.processed_items))
                = Len(checkpoint_manager'.processed_items)]_vars

\* ===================================================================
\* SpecWorkflow: the item workflow alone, in its two implementations
\* (NoticeProcessor.process_notice and CrawlerEngine._process_notice); a
\* behaviour drives one of them over a checkpoint store, a dedup store, a
\* collection and a stats dict.
\* ===================================================================
WorkflowOther == <<stats_reports, save_pc, storage_file, early_exit_threshold, pc,
                   current_page_num, idx, runs, sinks, raised, max_pages, browser_page,
                   failed_items, detail_tabs>>

\* how the workflow classifies an item before it touches it
Classify(cm, dm, notice_data) ==
    IF notice_data.bid_notice_number \in Range(cm.processed_items) THEN "processed"
    ELSE IF dm.enabled /\ generate_hash(dm, notice_data) \in dm.seen_hashes THEN "duplicate"
    ELSE "new"

\* what an observer of one invocation notes down
Digest(impl, notice_data, fetch, class, before, w) ==
    LET fd == full_data_of(notice_data, fetch)
        c == IF fd.ok THEN construct_bid_notice(notice_data, fd) ELSE [ok |-> FALSE]
    IN [impl |-> impl,
        id |-> notice_data.bid_notice_number,
        class |-> class,
        before |-> before,
        fetched |-> w.fetched,
        raised_at |-> w.raised_at,
        error |-> w.error,
        built |-> class = "new" /\ c.ok,
        empty |-> IF class = "new" /\ c.ok THEN CriticalFields \ c.bid_notice.filled ELSE {},
        notes |-> class = "new" /\ c.ok /\ c.bid_notice.notes]

DupsAfter(class, n) ==
    CASE class = "duplicate" -> n + 1
      [] class = "new" -> 0
      [] OTHER -> n

\* a dedup store that has seen the given identifiers
RECURSIVE SeenAfter(_, _)
SeenAfter(dm, ids) ==
    IF ids = << >> THEN dm
    ELSE SeenAfter(mark_as_seen(dm, [bid_notice_number |-> Head(ids)]), Tail(ids))

WfProcessNotice ==
    /\ hist.n < MaxItems
    /\ hist.impl = "processor"
    /\ \E notice_data \in Rows : \E fetch \in FetchFor(notice_data) :
          \E w \in {process_notice(
                     Workflow(checkpoint_manager, checkpoint_file, temp_file,
                              dedup_manager, collected_notices, total_count, stats,
                              processor_consecutive_duplicates),
                     notice_data, fetch)},
             class \in {Classify(checkpoint_manager, dedup_manager, notice_data)} :
             /\ checkpoint_manager' = w.cm
             /\ checkpoint_file' = w.file
             /\ temp_file' = w.temp
             /\ dedup_manager' = w.dm
             /\ collected_notices' = w.collected
             /\ total_count' = w.total_count
             /\ stats' = w.stats
             /\ processor_consecutive_duplicates' = w.consecutive
             /\ hist' = [impl |-> hist.impl, n |-> hist.n + 1,
                         last |-> Digest("processor", notice_data, fetch, class,
                                         processor_consecutive_duplicates, w),
                         p_dups |-> DupsAfter(class, hist.p_dups),
                         e_dups |-> hist.e_dups]
    /\ UNCHANGED consecutive_duplicates
    /\ UNCHANGED WorkflowOther

WfEngineProcessNotice ==
    /\ hist.n < MaxItems
    /\ hist.impl = "engine"
    /\ \E notice_data \in Rows : \E fetch \in FetchFor(notice_data) :
          \E w \in {engine_process_notice(
                     Workflow(checkpoint_manager, checkpoint_file, temp_file,
                              dedup_manager, collected_notices, total_count, stats,
                              consecutive_duplicates),
                     notice_data, fetch)},
             class \in {Classify(checkpoint_manager, dedup_manager, notice_data)} :
             /\ checkpoint_manager' = w.cm
             /\ checkpoint_file' = w.file
             /\ temp_file' = w.temp
             /\ dedup_manager' = w.dm
             /\ collected_notices' = w.collected
             /\ total_count' = w.total_count
             /\ stats' = w.stats
             /\ consecutive_duplicates' = w.consecutive
             /\ hist' = [impl |-> hist.impl, n |-> hist.n + 1,
                         last |-> Digest("engine", notice_data, fetch, class,
                                         consecutive_duplicates, w),
                         p_dups |-> hist.p_dups,
                         e_dups |-> DupsAfter(class, hist.e_dups)]
    /\ UNCHANGED processor_consecutive_duplicates
    /\ UNCHANGED WorkflowOther

NoDigest ==
    [impl |-> "none", id |-> "", class |-> "none", before |-> 0, fetched |-> FALSE,
     raised_at |-> "none",
     error |-> "", built |-> FALSE, empty |-> {}, notes |-> FALSE]

InitWorkflow ==
    /\ checkpoint_manager = initialize_crawl(NewCheckpointManager, EmptyDict)
    /\ checkpoint_file = NoFile
    /\ temp_file = NoFile
    /\ save_pc = "idle"
    /\ \E enabled \in BOOLEAN, ids \in {<< >>, <<"a1">>, <<"a1", "b2">>} :
          dedup_manager = SeenAfter(NewDeduplicationManager(KeyFields, enabled, NoFile), ids)
    /\ storage_file = NoFile
    /\ collected_notices = << >>
    /\ total_count = 0
    /\ stats = [pages_crawled |-> 0, items_extracted |-> 0, items_skipped |-> 0, errors |-> 0]
    /\ consecutive_duplicates = 0
    /\ processor_consecutive_duplicates = 0
    /\ early_exit_threshold = MaxThreshold
    /\ pc = "idle"
    /\ current_page_num = 1
    /\ idx = 0
    /\ runs = 0
    /\ sinks = << >>
    /\ raised = "none"
    /\ max_pages = MaxPages
    /\ failed_items = << >>
    /\ detail_tabs = 0
    /\ stats_reports = 0
    /\ browser_page = 0
    /\ \E impl \in {"processor", "engine"} :
          hist = [impl |-> impl, n |-> 0, last |-> NoDigest, p_dups |-> 0, e_dups |-> 0]

NextWorkflow ==
    \/ WfProcessNotice
    \/ WfEngineProcessNotice

SpecWorkflow == InitWorkflow /\ [][NextWorkflow]_vars

\* C4: an exception at any step of one invocation (detail fetch, record
\* construction, quality gate) ends inside the invocation: exactly one
\* failed-items entry with the item's id and the message is appended, the
\* error counter grows by one, and nothing else of the stores, the
\* collection or the counters of skipped and extracted items changes, so the
\* next item meets the state the failed one met.
C4_FailureIsolated ==
    [][(hist'.n = hist.n + 1 /\ hist'.last.raised_at # "none") =>
         /\ checkpoint_manager'.failed_items =
               Append(checkpoint_manager.failed_items,
                      [item_id |-> hist'.last.id, error |-> hist'.last.error,
                       timestamp |-> Now])
         /\ stats'.errors = stats.errors + 1
         /\ stats'.items_skipped = stats.items_skipped
         /\ stats'.items_extracted = stats.items_extracted
         /\ checkpoint_manager'.processed_items = checkpoint_manager.processed_items
         /\ checkpoint_manager'.state = checkpoint_manager.state
         /\ checkpoint_manager'.current_page = checkpoint_manager.current_page
         /\ dedup_manager' = dedup_manager
         /\ collected_notices' = collected_notices
         /\ checkpoint_file' = checkpoint_file]_vars

\* C4 witness: an item failed and the item after it was committed
C4_Witness ==
    /\ Len(checkpoint_manager.failed_items) = 1
    /\ stats.errors = 1
    /\ hist.n = 2
    /\ hist.last.class = "new"
    /\ hist.last.raised_at = "none"
    /\ hist.last.id # checkpoint_manager.failed_items[1].item_id
    /\ Len(collected_notices) = 1

C7_ConsecutiveDuplicates ==
    /\ processor_consecutive_duplicates = hist.p_dups
    /\ consecutive_duplicates = hist.e_dups

\* C7 witness: three duplicates, then a new item, and the counter is 0
C7_Witness ==
    /\ hist.last.impl = "processor"
    /\ hist.last.class = "new"
    /\ hist.last.before = 3
    /\ processor_consecutive_duplicates = 0

\* C31: an invocation for an item whose id is already in processed_items
\* adds one to items_skipped and changes nothing else: the checkpoint store
\* (processed_items, failed_items, the save counter) and its file, the dedup
\* store, the collection, the other counters and both counters of
\* consecutive duplicates stay as they were, and the detail fetch is not
\* called.
C31_ProcessedSkipFrame ==
    [][(hist'.n = hist.n + 1 /\ hist'.last.class = "processed") =>
         /\ stats' = [stats EXCEPT !.items_skipped = @ + 1]
         /\ checkpoint_manager' = checkpoint_manager
         /\ checkpoint_file' = checkpoint_file
         /\ temp_file' = temp_file
         /\ dedup_manager' = dedup_manager
         /\ collected_notices' = collected_notices
         /\ total_count' = total_count
         /\ consecutive_duplicates' = consecutive_duplicates
         /\ processor_consecutive_duplicates' = processor_consecutive_duplicates
         /\ ~hist'.last.fetched]_vars

\* C31 witness: a committed item was met again and skipped as processed,
\* with a duplicate skip before it that had raised the counter
C31_Witness ==
    /\ hist.last.class = "processed"
    /\ hist.n = 3
    /\ Len(collected_notices) = 1
    /\ hist.last.id = collected_notices[1].bid_notice_number
    /\ stats.items_skipped = 2
    /\ hist.p_dups + hist.e_dups = 1

\* C32: an invocation for an item that is not processed and whose
\* fingerprint is in the dedup store calls no detail fetch, leaves the
\* collection, the dedup store and failed_items alone, adds one to
\* items_skipped and appends the id to processed_items, so that the item is
\* processed for every later invocation.
C32_DuplicateSkip ==
    [][(hist'.n = hist.n + 1 /\ hist'.last.class = "duplicate") =>
         /\ ~hist'.last.fetched
         /\ collected_notices' = collected_notices
         /\ total_count' = total_count
         /\ dedup_manager' = dedup_manager
         /\ checkpoint_manager'.failed_items = checkpoint_manager.failed_items
         /\ stats' = [stats EXCEPT !.items_skipped = @ + 1]
         /\ checkpoint_manager'.processed_items =
               Append(checkpoint_manager.processed_items, hist'.last.id)
         /\ is_item_processed(checkpoint_manager', hist'.last.id)]_vars

\* C32 witness: an item skipped as a duplicate was met again and took the
\* already-processed path
C32_Witness ==
    /\ hist.n = 2
    /\ hist.last.class = "processed"
    /\ stats.items_skipped = 2
    /\ collected_notices = << >>
    /\ checkpoint_manager.processed_items = <<hist.last.id>>

\* C33: after every invocation for an item classified as new either the
\* record is in the collection, the id is in processed_items and (with the
\* dedup store enabled) the fingerprint is seen, or none of the three holds
\* and failed_items has an entry of the item; and the collection's
\* total_count is the number of records it holds.
C33_InvocationAtomic ==
    /\ total_count = Len(collected_notices)
    /\ hist.last.class = "new" =>
          LET id == hist.last.id
              collected == id \in {collected_notices[i].bid_notice_number :
                                      i \in DOMAIN collected_notices}
              seen == generate_hash(dedup_manager, [bid_notice_number |-> id])
                         \in dedup_manager.seen_hashes
              processed == id \in Range(checkpoint_manager.processed_items)
              failed == \E i \in DOMAIN checkpoint_manager.failed_items :
                           checkpoint_manager.failed_items[i].item_id = id
          IN IF hist.last.raised_at = "none"
             THEN collected /\ processed /\ (dedup_manager.enabled => seen)
             ELSE ~collected /\ ~processed /\ ~seen /\ failed

\* ===================================================================
\* Spec: the orchestrator. CrawlerEngine.run() taken step by step (start,
\* navigation to the list, one step per page head, per row and per page
\* turn, then complete_crawl, _save_data and the dedup save), so that the
\* process can be killed between the steps and run again.
\* ===================================================================
EngineOther == <<stats_reports, save_pc, processor_consecutive_duplicates,
                 early_exit_threshold, max_pages, failed_items, detail_tabs>>

\* CrawlerEngine.__init__: self.stats
NewStats == [pages_crawled |-> 0, items_extracted |-> 0, items_skipped |-> 0, errors |-> 0]

\* the rows and fetch outcomes the engine is driven with: its workflow has
\* no quality gate, so the critical fields of a record decide nothing
EngineRows ==
    {r \in Rows : r.filled = {} /\ r.valid /\ r.bid_notice_number \in {"a1", "A1 ", "b2"}}

EngineFetchFor(notice_data) ==
    {f \in FetchFor(notice_data) :
        f.kind = "detail" => (f.filled = {"opening_date"} /\ ~f.notes)}

\* str(e) of the exceptions that escape startup
StartupErrors == {"List page URL not configured", "Failed to navigate"}

\* run(): load the checkpoint when resuming and one is found, else initialize
load_or_initialize(resume, file) ==
    LET r == load_checkpoint(NewCheckpointManager, file)
    IN IF resume /\ r.found THEN r.cm
       ELSE initialize_crawl(NewCheckpointManager, [target |-> "NuriJangter"])

\* run(): except KeyboardInterrupt: [cm, file, temp, storage]
on_keyboard_interrupt(cm, file, temp, dm, storage) ==
    LET s == save_checkpoint(set_state(cm, "PAUSED"), file, temp, TRUE)
    IN [cm |-> s.cm, file |-> s.file, temp |-> s.temp,
        storage |-> dedup_save(dm, storage)]

\* a handler that marks the failure in memory and does not save it
on_exception_unsaved(cm, file, temp, st) ==
    [cm |-> complete_crawl_mem(cm, FALSE), file |-> file, temp |-> temp,
     stats |-> [st EXCEPT !.errors = @ + 1]]

\* run(): except Exception: [cm, file, temp, stats]
on_exception(cm, file, temp, st) ==
    LET c == complete_crawl(cm, file, temp, FALSE)
    IN [cm |-> c.cm, file |-> c.file, temp |-> c.temp,
        stats |-> [st EXCEPT !.errors = @ + 1]]

\* an exit test that lets the counter pass the threshold by one
early_exit_late(consecutive, threshold) == consecutive > threshold

\* _crawl_list_pages: if self.consecutive_duplicates >= self.early_exit_threshold
early_exit(consecutive, threshold) == consecutive >= threshold

\* Python's order of the bid notice numbers (upper case sorts first)
IdRank(id) ==
    CASE id = "A1 " -> 1
      [] id = "a1" -> 2
      [] id = "b2" -> 3
      [] id = "c3" -> 4

RECURSIVE InsertDesc(_, _)
InsertDesc(sorted, n) ==
    IF sorted = << >> THEN <<n>>
    ELSE IF IdRank(n.bid_notice_number) > IdRank(Head(sorted).bid_notice_number)
    THEN <<n>> \o sorted
    ELSE <<Head(sorted)>> \o InsertDesc(Tail(sorted), n)

\* notices.sort(key=(announcement_date, bid_notice_number), reverse=True),
\* all notices of one announcement date
RECURSIVE SortNotices(_)
SortNotices(notices) ==
    IF notices = << >> THEN << >>
    ELSE InsertDesc(SortNotices(SubSeq(notices, 1, Len(notices) - 1)),
                    notices[Len(notices)])

\* a flush that hands the records over in the order they were collected
save_data_unsorted(collected, handed) ==
    IF collected = << >> THEN [collected |-> collected, sinks |-> handed]
    ELSE [collected |-> collected, sinks |-> Append(handed, collected)]

\* _save_data: [collected, sinks]
save_data(collected, handed) ==
    IF collected = << >> THEN [collected |-> collected, sinks |-> handed]
    ELSE LET sorted == SortNotices(collected)
         IN [collected |-> sorted, sinks |-> Append(handed, sorted)]

\* what an observer of the run notes down: the last step, the exception or
\* interrupt it met, the items handled in the behaviour, the duplicates in a
\* row of this run, where the early exit was taken, the exceptions the page
\* loop caught in this run, whether it gave up over them, and the page a
\* loaded checkpoint made the run start from (0: none loaded)
EngineHist0 ==
    [step |-> "none", signal |-> "none", absorbed |-> FALSE, items |-> 0,
     dups |-> 0, early_exit |-> FALSE, exit_cursor |-> 0, exit_idx |-> 0,
     page_errors |-> 0, aborted |-> FALSE, resumed_from |-> 0]

Observe(step) ==
    [hist EXCEPT !.step = IF step = "advance" THEN step ELSE "none",
                 !.signal = "none", !.absorbed = FALSE]

\* the KeyboardInterrupt reaches run(): its handler, and run() raises it
RunInterrupted(cm) ==
    LET h == on_keyboard_interrupt(cm, checkpoint_file, temp_file,
                                   dedup_manager, storage_file)
    IN /\ checkpoint_manager' = h.cm
       /\ checkpoint_file' = h.file
       /\ temp_file' = h.temp
       /\ storage_file' = h.storage
       /\ pc' = "idle"
       /\ raised' = "KeyboardInterrupt"
       /\ hist' = [hist EXCEPT !.step = "none", !.signal = "KeyboardInterrupt",
                               !.absorbed = FALSE]

\* an exception reaches run(): its handler, and run() raises it again
RunFailed(error) ==
    LET h == on_exception(checkpoint_manager, checkpoint_file, temp_file, stats)
    IN /\ checkpoint_manager' = h.cm
       /\ checkpoint_file' = h.file
       /\ temp_file' = h.temp
       /\ stats' = h.stats
       /\ pc' = "idle"
       /\ raised' = error
       /\ hist' = [hist EXCEPT !.step = "none", !.signal = error, !.absorbed = FALSE]

\* a process starts: CrawlerEngine(config) and the first lines of run(resume)
RunStart ==
    /\ pc = "idle"
    /\ runs < MaxRuns
    /\ \E resume \in BOOLEAN :
          /\ checkpoint_manager' = load_or_initialize(resume, checkpoint_file)
          /\ hist' = [EngineHist0 EXCEPT
                        !.items = hist.items,
                        !.resumed_from =
                            IF resume /\ load_checkpoint(NewCheckpointManager,
                                                         checkpoint_file).found
                            THEN checkpoint_manager'.current_page ELSE 0]
    /\ dedup_manager' = NewDeduplicationManager(KeyFields, TRUE, storage_file)
    /\ collected_notices' = << >>
    /\ total_count' = 0
    /\ stats' = NewStats
    /\ consecutive_duplicates' = 0
    /\ pc' = "navigate"
    /\ current_page_num' = 1
    /\ idx' = 0
    /\ runs' = runs + 1
    /\ raised' = "none"
    /\ browser_page' = 0
    /\ UNCHANGED <<checkpoint_file, temp_file, storage_file, sinks>>
    /\ UNCHANGED EngineOther

\* run(): the browser, the list URL and _navigate_to_page, then the first
\* line of _crawl_list_pages
NavigateToPage ==
    /\ pc = "navigate"
    /\ \/ /\ pc' = "page"
          /\ current_page_num' = checkpoint_manager.current_page
          /\ browser_page' = 1
          /\ hist' = Observe("navigate")
          /\ UNCHANGED <<checkpoint_manager, checkpoint_file, temp_file,
                         storage_file, stats, raised>>
       \/ /\ \E error \in StartupErrors : RunFailed(error)
          /\ UNCHANGED <<storage_file, current_page_num, browser_page>>
       \/ /\ RunInterrupted(checkpoint_manager)
          /\ UNCHANGED <<stats, current_page_num, browser_page>>
    /\ UNCHANGED <<dedup_manager, collected_notices, total_count, consecutive_duplicates, idx,
                   runs, sinks>>
    /\ UNCHANGED EngineOther

\* a test that lets the loop read one page past the limit
max_pages_reached_late(limit, page_num) == limit > 0 /\ page_num > limit + 1

\* _crawl_list_pages: if max_pages > 0 and current_page_num > max_pages
max_pages_reached(limit, page_num) == limit > 0 /\ page_num > limit

\* _crawl_list_pages, the head of the loop: the max_pages test,
\* _wait_for_page_load and parse_page, with the handler of the loop
CrawlListPage ==
    /\ pc = "page"
    /\ IF max_pages_reached(max_pages, current_page_num)
       THEN /\ pc' = "complete"
            /\ hist' = Observe("max_pages")
            /\ UNCHANGED <<checkpoint_manager, checkpoint_file, temp_file,
                           storage_file, stats, raised, current_page_num, idx>>
       ELSE \/ /\ stats' = [stats EXCEPT !.pages_crawled = @ + 1]
               /\ idx' = 0
               /\ pc' = "items"
               /\ hist' = Observe("parsed")
               /\ UNCHANGED <<checkpoint_manager, checkpoint_file, temp_file,
                              storage_file, raised, current_page_num>>
            \/ /\ stats' = [stats EXCEPT !.errors = @ + 1]
               /\ IF stats'.errors > MaxPageErrors
                  THEN pc' = "complete" /\ UNCHANGED current_page_num
                  ELSE pc' = "page" /\ current_page_num' = current_page_num + 1
               /\ hist' = [Observe("page_error") EXCEPT
                             !.page_errors = @ + 1,
                             !.aborted = stats'.errors > MaxPageErrors]
               /\ UNCHANGED <<checkpoint_manager, checkpoint_file, temp_file,
                              storage_file, raised, idx>>
            \/ /\ RunInterrupted(checkpoint_manager)
               /\ UNCHANGED <<stats, current_page_num, idx>>
    /\ UNCHANGED <<dedup_manager, collected_notices, total_count, consecutive_duplicates,
                   runs, sinks, browser_page>>
    /\ UNCHANGED EngineOther

\* _crawl_list_pages, one turn of the row loop: _process_notice on the next
\* row, then the early-exit test. A KeyboardInterrupt can arrive inside the
\* detail fetch of a new item: it either propagates to run() or is caught
\* by one of the bare except clauses around a wait (engine.py 661-663), and
\* then the fetch goes on.
ProcessNoticeOf(rows, cap) ==
    /\ pc = "items"
    /\ idx < MaxRows
    /\ hist.items < cap
    /\ \E notice_data \in rows : \E fetch \in EngineFetchFor(notice_data) :
       \E signal \in {"none", "absorbed", "propagated"} :
       \E class \in {Classify(checkpoint_manager, dedup_manager, notice_data)} :
          /\ signal # "none" => (class = "new" /\ notice_data.has_detail)
          /\ IF signal = "propagated"
             THEN /\ consecutive_duplicates' = 0
                  /\ RunInterrupted(checkpoint_manager)
                  /\ UNCHANGED <<dedup_manager, collected_notices, total_count, stats, idx>>
             ELSE \E w \in {engine_process_notice(
                              Workflow(checkpoint_manager, checkpoint_file, temp_file,
                                       dedup_manager, collected_notices, total_count, stats,
                                       consecutive_duplicates),
                              notice_data, fetch)} :
                  /\ checkpoint_manager' = w.cm
                  /\ checkpoint_file' = w.file
                  /\ temp_file' = w.temp
                  /\ dedup_manager' = w.dm
                  /\ collected_notices' = w.collected
                  /\ total_count' = w.total_count
                  /\ stats' = w.stats
                  /\ consecutive_duplicates' = w.consecutive
                  /\ IF early_exit(w.consecutive, early_exit_threshold)
                     THEN /\ pc' = "complete"
                          /\ idx' = idx
                     ELSE /\ pc' = "items"
                          /\ idx' = idx + 1
                  /\ hist' = [hist EXCEPT
                                !.step = "none",
                                !.signal = IF signal = "absorbed" THEN "KeyboardInterrupt"
                                           ELSE "none",
                                !.absorbed = (signal = "absorbed"),
                                !.items = @ + 1,
                                !.dups = DupsAfter(class, @),
                                !.early_exit = early_exit(w.consecutive, early_exit_threshold),
                                !.exit_cursor = w.cm.current_page,
                                !.exit_idx = idx]
                  /\ UNCHANGED <<storage_file, raised>>
    /\ UNCHANGED <<current_page_num, runs, sinks, browser_page>>
    /\ UNCHANGED EngineOther

\* the row loop over the rows and within the number of rows of Spec
ProcessNotice == ProcessNoticeOf(EngineRows, MaxCrawled)

\* _crawl_list_pages after the last row of the page: has_next_page,
\* go_to_next_page, the page cursor and _rate_limit
NextPage ==
    /\ pc = "items"
    /\ \/ /\ \E outcome \in {"no_next_page", "next_page_failed"} :
                hist' = Observe(outcome)
          /\ pc' = "complete"
          /\ UNCHANGED <<checkpoint_manager, checkpoint_file, temp_file,
                         storage_file, raised, current_page_num, browser_page>>
       \/ /\ max_pages > 0 \/ current_page_num < MaxCursor
          /\ current_page_num' = current_page_num + 1
          /\ browser_page' = browser_page + 1
          /\ checkpoint_manager' =
                advance_page([checkpoint_manager EXCEPT
                                 !.current_page = current_page_num + 1])
          /\ pc' = "page"
          /\ hist' = Observe("advance")
          /\ UNCHANGED <<checkpoint_file, temp_file, storage_file, raised>>
       \/ /\ max_pages > 0 \/ current_page_num < MaxCursor
          /\ current_page_num' = current_page_num + 1
          /\ browser_page' = browser_page + 1
          /\ RunInterrupted(advance_page([checkpoint_manager EXCEPT
                                             !.current_page = current_page_num + 1]))
    /\ UNCHANGED <<dedup_manager, collected_notices, total_count, stats, consecutive_duplicates,
                   idx, runs, sinks>>
    /\ UNCHANGED EngineOther

\* run(): checkpoint_manager.complete_crawl(success=True)
CompleteCrawl ==
    /\ pc = "complete"
    /\ LET c == complete_crawl(checkpoint_manager, checkpoint_file, temp_file, TRUE)
       IN /\ checkpoint_manager' = c.cm
          /\ checkpoint_file' = c.file
          /\ temp_file' = c.temp
    /\ pc' = "save_data"
    /\ hist' = Observe("complete")
    /\ UNCHANGED <<dedup_manager, storage_file, collected_notices, total_count, stats,
                   consecutive_duplicates, current_page_num, idx, runs, sinks, raised, browser_page>>
    /\ UNCHANGED EngineOther

\* run(): self._save_data()
SaveData ==
    /\ pc = "save_data"
    /\ LET d == save_data(collected_notices, sinks)
       IN /\ collected_notices' = d.collected
          /\ UNCHANGED total_count
          /\ sinks' = d.sinks
    /\ pc' = "dedup_save"
    /\ hist' = Observe("save_data")
    /\ UNCHANGED <<checkpoint_manager, checkpoint_file, temp_file, dedup_manager,
                   storage_file, stats, consecutive_duplicates, current_page_num,
                   idx, runs, raised, browser_page>>
    /\ UNCHANGED EngineOther

\* run(): self.dedup_manager.save(), and run() returns; run_crawler then
\* logs the statistics of the engine
DedupSave ==
    /\ pc = "dedup_save"
    /\ storage_file' = dedup_save(dedup_manager, storage_file)
    /\ stats_reports' = stats_reports + 1
    /\ pc' = "idle"
    /\ hist' = Observe("returned")
    /\ UNCHANGED <<checkpoint_manager, checkpoint_file, temp_file, dedup_manager,
                   collected_notices, total_count, stats, consecutive_duplicates, current_page_num,
                   idx, runs, sinks, raised, browser_page>>
    /\ UNCHANGED <<save_pc, processor_consecutive_duplicates, early_exit_threshold,
                   max_pages, failed_items, detail_tabs>>

\* the process is killed between two steps: its memory is gone, the files stay
Kill ==
    /\ pc # "idle"
    /\ checkpoint_manager' = NewCheckpointManager
    /\ dedup_manager' = NewDeduplicationManager(KeyFields, TRUE, NoFile)
    /\ collected_notices' = << >>
    /\ total_count' = 0
    /\ stats' = NewStats
    /\ consecutive_duplicates' = 0
    /\ current_page_num' = 1
    /\ idx' = 0
    /\ pc' = "idle"
    /\ raised' = "killed"
    /\ browser_page' = 0
    /\ hist' = [EngineHist0 EXCEPT !.items = hist.items]
    /\ UNCHANGED <<checkpoint_file, temp_file, storage_file, runs, sinks>>
    /\ UNCHANGED EngineOther

\* what is on disk and in the sinks before the first run: nothing, or what
\* an earlier run that crawled the rows a1 and b2 to completion left there
NoPriorCrawl ==
    [checkpoint_file |-> NoFile, temp_file |-> NoFile, storage_file |-> NoFile,
     sinks |-> << >>]

PriorCrawl ==
    LET row(id) == [bid_notice_number |-> id, has_detail |-> FALSE, filled |-> {},
                    notes |-> FALSE, valid |-> TRUE, fallback_valid |-> TRUE]
        w0 == Workflow(load_or_initialize(FALSE, NoFile), NoFile, NoFile,
                       NewDeduplicationManager(KeyFields, TRUE, NoFile),
                       << >>, 0, NewStats, 0)
        w1 == engine_process_notice(w0, row("a1"), [kind |-> "base"])
        w2 == engine_process_notice(w1, row("b2"), [kind |-> "base"])
        c == complete_crawl(w2.cm, w2.file, w2.temp, TRUE)
    IN [checkpoint_file |-> c.file, temp_file |-> c.temp,
        storage_file |-> dedup_save(w2.dm, NoFile),
        sinks |-> save_data(w2.collected, << >>).sinks]

Init ==
    /\ checkpoint_manager = NewCheckpointManager
    /\ \E prior \in {NoPriorCrawl, PriorCrawl} :
          /\ checkpoint_file = prior.checkpoint_file
          /\ temp_file = prior.temp_file
          /\ storage_file = prior.storage_file
          /\ sinks = prior.sinks
    /\ save_pc = "idle"
    /\ dedup_manager = NewDeduplicationManager(KeyFields, TRUE, NoFile)
    /\ collected_notices = << >>
    /\ total_count = 0
    /\ stats = NewStats
    /\ consecutive_duplicates = 0
    /\ processor_consecutive_duplicates = 0
    /\ early_exit_threshold \in 1..MaxThreshold
    /\ pc = "idle"
    /\ current_page_num = 1
    /\ idx = 0
    /\ runs = 0
    /\ raised = "none"
    /\ max_pages = MaxPages
    /\ failed_items = << >>
    /\ detail_tabs = 0
    /\ stats_reports = 0
    /\ browser_page = 0
    /\ hist = EngineHist0

Next ==
    \/ RunStart
    \/ NavigateToPage
    \/ CrawlListPage
    \/ ProcessNotice
    \/ NextPage
    \/ CompleteCrawl
    \/ SaveData
    \/ DedupSave
    \/ Kill

Spec == Init /\ [][Next]_vars

\* the fingerprints of the records handed to the storage sinks, in order
RECURSIVE Flatten(_)
Flatten(batches) ==
    IF batches = << >> THEN << >> ELSE Head(batches) \o Flatten(Tail(batches))

HandedFingerprints ==
    LET handed == Flatten(sinks)
    IN [i \in DOMAIN handed |->
           generate_hash(NewDeduplicationManager(KeyFields, TRUE, NoFile), handed[i])]

\* C3: with deduplication enabled, over fresh runs, resumed runs and runs
\* after a kill at any point, no two records handed to the storage sinks
\* have the same fingerprint.
C3_NoRecordStoredTwice ==
    \A i, j \in DOMAIN HandedFingerprints :
        i # j => HandedFingerprints[i] # HandedFingerprints[j]

\* C6: the early-exit test follows every item: the page loop never goes on
\* with the counter at or above the threshold, the exit is taken exactly
\* when the run of duplicates reaches the threshold, and after it no row is
\* handled, no page is turned and the page cursor stays where it was.
C6_EarlyExit ==
    /\ pc \in {"items", "page"} =>
          /\ ~hist.early_exit
          /\ hist.dups < early_exit_threshold
          /\ consecutive_duplicates < early_exit_threshold
    /\ hist.early_exit =>
          /\ hist.dups = early_exit_threshold
          /\ pc \in {"complete", "save_data", "dedup_save", "idle"}
          /\ checkpoint_manager.current_page = hist.exit_cursor
          /\ idx = hist.exit_idx

\* C6 witness: threshold 3, the exit taken at the third duplicate in a row,
\* and the run went on to its end without another row or page
C6_Witness ==
    /\ early_exit_threshold = 3
    /\ hist.early_exit
    /\ hist.dups = 3
    /\ stats.items_skipped = 3
    /\ pc = "idle"
    /\ raised = "none"

\* C8: right after the page loop went from page k to page k+1 the
\* checkpoint's current_page is k+1, the page the loop is on.
C8_CursorFollowsPage ==
    hist.step = "advance" => checkpoint_manager.current_page = current_page_num

\* C9: a KeyboardInterrupt raised at a wait inside a run reaches run(): run()
\* has raised it, the state in memory and on disk is PAUSED, and the dedup
\* store is saved.
C9_InterruptReachesRun ==
    hist.signal = "KeyboardInterrupt" =>
        /\ raised = "KeyboardInterrupt"
        /\ pc = "idle"
        /\ checkpoint_manager.state = "PAUSED"
        /\ checkpoint_file.kind = "json"
        /\ checkpoint_file.data.state = StateValue("PAUSED")
        /\ storage_file = dedup_save(dedup_manager, storage_file)

\* C10: when an exception other than KeyboardInterrupt escapes startup, run()
\* has marked the checkpoint FAILED, the saved checkpoint is FAILED with an
\* end time, and run() raised that same exception.
C10_FailureRecorded ==
    (hist.signal \in StartupErrors \/ raised \in StartupErrors) =>
        /\ raised = hist.signal
        /\ pc = "idle"
        /\ checkpoint_manager.state = "FAILED"
        /\ checkpoint_file.kind = "json"
        /\ checkpoint_file.data.state = StateValue("FAILED")
        /\ "end_time" \in DOMAIN checkpoint_file.data.statistics
        /\ checkpoint_file.data = CheckpointData(checkpoint_manager)

\* C10 witness: a resumed run whose navigation to the list failed
C10_Witness ==
    /\ raised = "Failed to navigate"
    /\ checkpoint_file.kind = "json"
    /\ checkpoint_file.data.state = StateValue("FAILED")
    /\ Len(checkpoint_file.data.processed_items) >= 1
    /\ stats.errors = 1

\* C37: once a run has returned, every id the checkpoint file lists as
\* processed belongs to a record that was handed to the storage sinks (by
\* that run or an earlier one), also when an earlier run was interrupted,
\* failed or was killed.
C37_ProcessedRecordsReachSinks ==
    (pc = "idle" /\ raised = "none" /\ runs > 0 /\ checkpoint_file.kind = "json") =>
        \A id \in Range(checkpoint_file.data.processed_items) :
           generate_hash(NewDeduplicationManager(KeyFields, TRUE, NoFile),
                         [bid_notice_number |-> id]) \in Range(HandedFingerprints)

\* the records are in descending order of their identifiers
SortedDesc(notices) ==
    \A i, j \in DOMAIN notices :
       i < j => IdRank(notices[i].bid_notice_number) > IdRank(notices[j].bid_notice_number)

\* run() is past complete_crawl(success=True): the store is COMPLETED with
\* end time and duration, and the file holds exactly that
CompletedOnDisk ==
    /\ checkpoint_manager.state = "COMPLETED"
    /\ {"end_time", "duration_seconds"} \subseteq DOMAIN checkpoint_manager.statistics
    /\ checkpoint_file = JsonFile(CheckpointData(checkpoint_manager))
    /\ checkpoint_file.data.state = "completed"

PagingRows == {r \in EngineRows : r.bid_notice_number = "a1" /\ r.has_detail}

\* the row loop over the rows of SpecPaging
PagingProcessNotice == ProcessNoticeOf(PagingRows, MaxPageErrors)

\* what a run leaves on disk that turned from page 1 to page 2 and was
\* interrupted in the sleep of _rate_limit
PausedCrawl ==
    LET cm0 == load_or_initialize(FALSE, NoFile)
        cm1 == advance_page([cm0 EXCEPT !.current_page = 2])
        h == on_keyboard_interrupt(cm1, NoFile, NoFile,
                                   NewDeduplicationManager(KeyFields, TRUE, NoFile),
                                   NoFile)
    IN [checkpoint_file |-> h.file, temp_file |-> h.temp,
        storage_file |-> h.storage, sinks |-> << >>]

InitPaging ==
    /\ checkpoint_manager = NewCheckpointManager
    /\ \E prior \in {NoPriorCrawl, PausedCrawl} :
          /\ checkpoint_file = prior.checkpoint_file
          /\ temp_file = prior.temp_file
          /\ storage_file = prior.storage_file
          /\ sinks = prior.sinks
    /\ save_pc = "idle"
    /\ dedup_manager = NewDeduplicationManager(KeyFields, TRUE, NoFile)
    /\ collected_notices = << >>
    /\ total_count = 0
    /\ stats = NewStats
    /\ consecutive_duplicates = 0
    /\ processor_consecutive_duplicates = 0
    /\ early_exit_threshold = MaxThreshold
    /\ pc = "idle"
    /\ current_page_num = 1
    /\ idx = 0
    /\ runs = MaxRuns - 1
    /\ raised = "none"
    /\ max_pages = 0
    /\ failed_items = << >>
    /\ detail_tabs = 0
    /\ stats_reports = 0
    /\ browser_page = 0
    /\ hist = EngineHist0

NextPaging ==
    \/ RunStart
    \/ NavigateToPage
    \/ CrawlListPage
    \/ PagingProcessNotice
    \/ NextPage
    \/ CompleteCrawl
    \/ SaveData
    \/ DedupSave

SpecPaging == InitPaging /\ [][NextPaging]_vars

\* C11: the page loop gives up over caught page exceptions exactly when more
\* than 10 of them have occurred in the run; failures of single items, which
\* the item workflow records, do not count towards that.
C11_AbortCountsPageErrors ==
    hist.aborted = (hist.page_errors > MaxPageErrors)

\* C12: a run that resumed from a loaded checkpoint whose current_page is
\* p > 1 has the browser on listing page p when it extracts its first rows.
C12_ResumeReadsCheckpointPage ==
    (/\ hist.resumed_from > 1
     /\ pc = "items"
     /\ stats.pages_crawled = 1
     /\ hist.page_errors = 0) =>
        /\ current_page_num = hist.resumed_from
        /\ browser_page = hist.resumed_from

\* ===================================================================
\* SpecLoop: the page loop of _crawl_list_pages with and without a page
\* limit, on a fresh and on a resumed checkpoint; a process that has a step
\* to take takes it.
\* ===================================================================
InitLoop ==
    /\ checkpoint_manager = NewCheckpointManager
    /\ \E prior \in {NoPriorCrawl, PausedCrawl} :
          /\ checkpoint_file = prior.checkpoint_file
          /\ temp_file = prior.temp_file
          /\ storage_file = prior.storage_file
          /\ sinks = prior.sinks
    /\ save_pc = "idle"
    /\ dedup_manager = NewDeduplicationManager(KeyFields, TRUE, NoFile)
    /\ collected_notices = << >>
    /\ total_count = 0
    /\ stats = NewStats
    /\ consecutive_duplicates = 0
    /\ processor_consecutive_duplicates = 0
    /\ early_exit_threshold = MaxThreshold
    /\ pc = "idle"
    /\ current_page_num = 1
    /\ idx = 0
    /\ runs = MaxRuns - 1
    /\ raised = "none"
    /\ max_pages \in {0, 1, MaxPages, MaxPages + 1}
    /\ failed_items = << >>
    /\ detail_tabs = 0
    /\ stats_reports = 0
    /\ browser_page = 0
    /\ hist = EngineHist0

SpecLoop == InitLoop /\ [][NextPaging]_vars /\ WF_vars(NextPaging)

\* the page loop is running
InPageLoop == pc \in {"page", "items"}

\* C39: every turn of the page loop that starts another one has raised the
\* local page number by one; with a positive max_pages the rows of at most
\* max_pages - start page + 1 pages are extracted and the loop comes to an
\* end whatever the parser, the workflow and the navigation do; and a page
\* exception that brings the error count above 10 ends the loop, so that
\* no more than 11 page exceptions are met in a run.
C39_PageLoopTerminates ==
    /\ [][(InPageLoop /\ pc' = "page") => current_page_num' = current_page_num + 1]_vars
    /\ [](max_pages > 0 =>
            LET start == IF hist.resumed_from > 0 THEN hist.resumed_from ELSE 1
            IN stats.pages_crawled <= IF start > max_pages THEN 0
                                      ELSE max_pages - start + 1)
    /\ [](hist.page_errors <= MaxPageErrors + 1)
    /\ [][(pc = "page" /\ stats'.errors > stats.errors /\ stats'.errors > MaxPageErrors)
             => ~InPageLoop']_vars
    /\ (max_pages > 0 /\ InPageLoop) ~> ~InPageLoop

\* C39 witness: with max_pages = 2 a fresh run has read two pages and left
\* the loop at the limit
C39_Witness ==
    /\ max_pages = MaxPages
    /\ hist.resumed_from = 0
    /\ stats.pages_crawled = MaxPages
    /\ pc = "complete"
    /\ current_page_num = MaxPages + 1

\* ===================================================================
\* SpecRestore: pagination restore alone, in its two implementations
\* (Navigator.restore_pagination and CrawlerEngine._restore_pagination),
\* applied to a pager that stands on page 1.
\* ===================================================================
\* the pager of the site: how many page groups it has (the next-group button
\* answers while a further group exists), and whether the numbered button of
\* the target page is found by its id or by its text
Sites == [groups : 1..MaxGroups, id_button : BOOLEAN, text_button : BOOLEAN]

\* the two navigation actions of a restore
NextGroupClick == [act |-> "next_group", page |-> 0]
PageClick(target_page_num) == [act |-> "select", page |-> target_page_num]

\* a first group page computed from the page number instead of its predecessor
target_group_start_from_page(target_page_num) ==
    (target_page_num \div GroupSize) * GroupSize + 1

\* restore_pagination: target_group_start = ((target_page_num - 1) // 10) * 10 + 1
target_group_start(target_page_num) ==
    ((target_page_num - 1) \div GroupSize) * GroupSize + 1

\* restore_pagination: while current_group_start < target_group_start
RECURSIVE jump_groups(_, _, _, _)
jump_groups(site, current_group_start, target_page_num, clicks) ==
    IF current_group_start < target_group_start(target_page_num)
    THEN IF (current_group_start - 1) \div GroupSize + 1 < site.groups
         THEN jump_groups(site, current_group_start + GroupSize, target_page_num,
                          Append(clicks, NextGroupClick))
         ELSE [found |-> FALSE, at |-> current_group_start, clicks |-> clicks]
    ELSE [found |-> TRUE, at |-> current_group_start, clicks |-> clicks]

\* restore_pagination: the numbered button, by id first and by text otherwise
select_page(site, target_page_num, jumped) ==
    IF ~jumped.found THEN jumped
    ELSE IF site.id_button \/ site.text_button
    THEN [found |-> TRUE, at |-> target_page_num,
          clicks |-> Append(jumped.clicks, PageClick(target_page_num))]
    ELSE [found |-> FALSE, at |-> jumped.at, clicks |-> jumped.clicks]

\* Navigator.restore_pagination: every failure is logged and raised again
restore_pagination(site, target_page_num) ==
    IF target_page_num <= 1
    THEN [restored |-> TRUE, raised |-> FALSE, at |-> 1, clicks |-> << >>]
    ELSE LET r == select_page(site, target_page_num,
                              jump_groups(site, 1, target_page_num, << >>))
         IN [restored |-> r.found, raised |-> ~r.found, at |-> r.at, clicks |-> r.clicks]

\* CrawlerEngine._restore_pagination: every failure is logged and the call returns
engine_restore_pagination(site, target_page_num) ==
    IF target_page_num <= 1
    THEN [restored |-> TRUE, raised |-> FALSE, at |-> 1, clicks |-> << >>]
    ELSE LET r == select_page(site, target_page_num,
                              jump_groups(site, 1, target_page_num, << >>))
         IN [restored |-> r.found, raised |-> FALSE, at |-> r.at, clicks |-> r.clicks]

RestoreOther == <<stats_reports, checkpoint_manager, checkpoint_file, temp_file, save_pc, dedup_manager,
                  storage_file, collected_notices, total_count, stats, consecutive_duplicates,
                  processor_consecutive_duplicates, early_exit_threshold,
                  current_page_num, idx, runs, sinks, raised, max_pages,
                  failed_items, detail_tabs>>

NoRestore == [restored |-> FALSE, raised |-> FALSE, at |-> 1, clicks |-> << >>]

RsRestorePagination ==
    /\ pc = "reset"
    /\ \E r \in {restore_pagination(hist.site, current_page_num)} :
          /\ browser_page' = r.at
          /\ hist' = [hist EXCEPT !.impl = "navigator", !.result = r]
    /\ pc' = "restored"
    /\ UNCHANGED RestoreOther

RsEngineRestorePagination ==
    /\ pc = "reset"
    /\ \E r \in {engine_restore_pagination(hist.site, current_page_num)} :
          /\ browser_page' = r.at
          /\ hist' = [hist EXCEPT !.impl = "engine", !.result = r]
    /\ pc' = "restored"
    /\ UNCHANGED RestoreOther

InitRestore ==
    /\ checkpoint_manager = initialize_crawl(NewCheckpointManager, EmptyDict)
    /\ checkpoint_file = NoFile
    /\ temp_file = NoFile
    /\ save_pc = "idle"
    /\ dedup_manager = NewDeduplicationManager(KeyFields, TRUE, NoFile)
    /\ storage_file = NoFile
    /\ collected_notices = << >>
    /\ total_count = 0
    /\ stats = NewStats
    /\ consecutive_duplicates = 0
    /\ processor_consecutive_duplicates = 0
    /\ early_exit_threshold = MaxThreshold
    /\ pc = "reset"
    /\ current_page_num \in 0..MaxTarget
    /\ idx = 0
    /\ runs = 0
    /\ sinks = << >>
    /\ raised = "none"
    /\ max_pages = 0
    /\ failed_items = << >>
    /\ detail_tabs = 0
    /\ stats_reports = 0
    /\ browser_page = 1
    /\ \E site \in Sites : hist = [site |-> site, impl |-> "none", result |-> NoRestore]

NextRestore ==
    \/ RsRestorePagination
    \/ RsEngineRestorePagination

SpecRestore == InitRestore /\ [][NextRestore]_vars

\* the clicks of a restore that jumps n groups and then selects the page
RECURSIVE ExpectedClicks(_, _)
ExpectedClicks(n, target_page_num) ==
    IF n = 0 THEN <<PageClick(target_page_num)>>
    ELSE <<NextGroupClick>> \o ExpectedClicks(n - 1, target_page_num)

\* C16: a restore from page 1 that reaches its target page p > 1 has clicked
\* the next-group button exactly floor((p-1)/10) times and then the button
\* of page p exactly once (p = 23: two jumps, then page 23), and lands on p;
\* a restore that gives up has clicked a prefix of that; for p <= 1 nothing
\* is clicked at all.
C16_RestoreClicks ==
    pc = "restored" =>
        LET p == current_page_num
            r == hist.result
            e == ExpectedClicks((p - 1) \div GroupSize, p)
        IN IF p <= 1 THEN r.clicks = << >> /\ browser_page = 1
           ELSE IF r.restored THEN r.clicks = e /\ browser_page = p
           ELSE /\ Len(r.clicks) < Len(e)
                /\ r.clicks = SubSeq(e, 1, Len(r.clicks))

C16_Witness ==
    /\ pc = "restored"
    /\ current_page_num = 23
    /\ hist.result.restored
    /\ hist.result.clicks = <<NextGroupClick, NextGroupClick, PageClick(23)>>

\* ===================================================================
\* SpecFetch: the detail fetch (row lookup, recovery ladder, opening paths,
\* validation gate) inside the item workflow, in its two implementations
\* (NoticeProcessor and CrawlerEngine).
\* ===================================================================
Openings == {"new_tab", "modal", "in_page", "none"}

\* a pager whose controls all answer, and one whose page buttons are gone
GoodPager == [groups |-> MaxGroups, id_button |-> TRUE, text_button |-> TRUE]
BrokenPager == [groups |-> MaxGroups, id_button |-> FALSE, text_button |-> FALSE]

\* what the site does during one attempt of the fetch: whether the row is
\* visible at the direct lookup, whether each reset brings the listing back,
\* the pager each restore meets, whether the link of the row is visible,
\* the way the detail opens, and the critical fields the detail view adds;
\* an answer the fetch never asks for (a reset when the row is visible, an
\* opening when the link is hidden or nothing opens) is left at one value
FetchEnvs ==
    {env \in [visible : BOOLEAN, soft_works : BOOLEAN, hard_works : BOOLEAN,
              site_soft : {GoodPager, BrokenPager}, site_hard : {GoodPager, BrokenPager},
              link_visible : BOOLEAN, opening : Openings,
              detail_filled : {{}, {"opening_date"}}] :
        /\ env.visible => /\ env.soft_works /\ env.hard_works
                          /\ env.site_soft = GoodPager /\ env.site_hard = GoodPager
        /\ ~env.link_visible => env.opening = "none"
        /\ env.opening = "none" => env.detail_filled = {}}

\* the environments a retried attempt meets: the row and its link are
\* there, and the detail opens dated, opens undated or does not open
RetryEnvs ==
    {env \in FetchEnvs :
        /\ env.visible /\ env.link_visible
        /\ <<env.opening, env.detail_filled>> \in
              {<<"new_tab", {"opening_date"}>>, <<"in_page", {}>>, <<"none", {}>>}}

\* no restore is called for current_page_num <= 1
Unmoved == [restored |-> TRUE, raised |-> FALSE, at |-> 1, clicks |-> << >>]

\* fetch_detail_page: the row once the ladder is through (a restore that
\* raises is caught and logged next to its call)
recover_row(env, page_num) ==
    LET rs == IF page_num > 1 THEN restore_pagination(env.site_soft, page_num) ELSE Unmoved
        rh == IF page_num > 1 THEN restore_pagination(env.site_hard, page_num) ELSE Unmoved
        soft_row == env.soft_works /\ rs.restored
        hard_row == env.hard_works /\ rh.restored
    IN IF env.visible
       THEN [row |-> TRUE, steps |-> <<"lookup">>, raised |-> FALSE, at |-> page_num,
             soft_restore_failed |-> FALSE, hard_restore_failed |-> FALSE]
       ELSE IF soft_row
       THEN [row |-> TRUE, steps |-> <<"lookup", "soft_reset">>, raised |-> FALSE,
             at |-> rs.at, soft_restore_failed |-> FALSE, hard_restore_failed |-> FALSE]
       ELSE [row |-> hard_row, steps |-> <<"lookup", "soft_reset", "hard_reset">>,
             raised |-> FALSE, at |-> rh.at,
             soft_restore_failed |-> ~rs.restored, hard_restore_failed |-> ~rh.restored]

\* _fetch_detail_page: the row once the ladder is through (a restore that
\* raised would leave through the except of the whole function)
engine_recover_row(env, page_num) ==
    LET rs == IF page_num > 1 THEN engine_restore_pagination(env.site_soft, page_num) ELSE Unmoved
        rh == IF page_num > 1 THEN engine_restore_pagination(env.site_hard, page_num) ELSE Unmoved
        soft_row == env.soft_works /\ rs.restored
        hard_row == env.hard_works /\ rh.restored
    IN IF env.visible
       THEN [row |-> TRUE, steps |-> <<"lookup">>, raised |-> FALSE, at |-> page_num,
             soft_restore_failed |-> FALSE, hard_restore_failed |-> FALSE]
       ELSE IF rs.raised
       THEN [row |-> FALSE, steps |-> <<"lookup", "soft_reset">>, raised |-> TRUE,
             at |-> rs.at, soft_restore_failed |-> TRUE, hard_restore_failed |-> FALSE]
       ELSE IF soft_row
       THEN [row |-> TRUE, steps |-> <<"lookup", "soft_reset">>, raised |-> FALSE,
             at |-> rs.at, soft_restore_failed |-> FALSE, hard_restore_failed |-> FALSE]
       ELSE [row |-> hard_row, steps |-> <<"lookup", "soft_reset", "hard_reset">>,
             raised |-> rh.raised, at |-> rh.at,
             soft_restore_failed |-> ~rs.restored, hard_restore_failed |-> ~rh.restored]

\* what one attempt of the fetch hands back or raises
FetchResult(kind, error, filled, notice_data, ladder, paths, retrieved_by) ==
    [kind |-> kind, error |-> error, filled |-> filled, notes |-> notice_data.notes,
     valid |-> notice_data.valid, steps |-> ladder.steps, row |-> ladder.row,
     at |-> ladder.at, soft_restore_failed |-> ladder.soft_restore_failed,
     hard_restore_failed |-> ladder.hard_restore_failed,
     paths |-> paths, retrieved_by |-> retrieved_by]

\* a gate that lets every detail through
validation_passes_always(filled) == TRUE

\* if not full_data.get('opening_date'): raise Exception("Validation Failed ...")
validation_passes(filled) == "opening_date" \in filled

\* fetch_detail_page from the click on: new tab, then modal, then in-page;
\* the first two swallow the validation exception but have set
\* detail_opened, the third raises it again
open_detail(env, notice_data, ladder) ==
    LET filled == notice_data.filled \cup env.detail_filled
        ok == validation_passes(filled)
        failed(paths, by) == FetchResult("raise", "Failed to open detail page", {},
                                         notice_data, ladder, paths, by)
    IN IF env.opening = "new_tab"
       THEN IF ok THEN FetchResult("detail", "", filled, notice_data, ladder,
                                   <<"new_tab">>, "new_tab")
            ELSE failed(<<"new_tab">>, "new_tab")
       ELSE IF env.opening = "modal"
       THEN IF ok THEN FetchResult("detail", "", filled, notice_data, ladder,
                                   <<"new_tab", "modal">>, "modal")
            ELSE failed(<<"new_tab", "modal">>, "modal")
       ELSE IF env.opening = "in_page"
       THEN IF ok THEN FetchResult("detail", "", filled, notice_data, ladder,
                                   <<"new_tab", "modal", "in_page">>, "in_page")
            ELSE FetchResult("raise", "Validation Failed", {}, notice_data, ladder,
                             <<"new_tab", "modal", "in_page">>, "in_page")
       ELSE failed(<<"new_tab", "modal", "in_page">>, "none")

\* NoticeProcessor.fetch_detail_page
fetch_detail_page(env, notice_data, page_num) ==
    LET ladder == recover_row(env, page_num)
    IN IF ~ladder.row \/ ~env.link_visible
       THEN FetchResult("base", "", notice_data.filled, notice_data, ladder, << >>, "none")
       ELSE open_detail(env, notice_data, ladder)

\* the body of CrawlerEngine._fetch_detail_page: one attempt
engine_fetch_attempt(env, notice_data, page_num) ==
    LET ladder == engine_recover_row(env, page_num)
    IN IF ladder.raised
       THEN FetchResult("raise", "Pagination restoration failed", {}, notice_data,
                        ladder, << >>, "none")
       ELSE IF ~ladder.row \/ ~env.link_visible
       THEN FetchResult("base", "", notice_data.filled, notice_data, ladder, << >>, "none")
       ELSE open_detail(env, notice_data, ladder)

\* with_retry(max_attempts=3): the first attempt that returns, else the last raise
MaxAttempts == 3

RECURSIVE with_retry(_, _)
with_retry(attempts, n) ==
    IF attempts[n].kind # "raise" \/ n = MaxAttempts \/ n = Len(attempts)
    THEN [attempt |-> n, result |-> attempts[n]]
    ELSE with_retry(attempts, n + 1)

\* CrawlerEngine._fetch_detail_page
engine_fetch_detail_page(envs, notice_data, page_num) ==
    with_retry([i \in DOMAIN envs |-> engine_fetch_attempt(envs[i], notice_data, page_num)], 1)

\* the rows of this specification: each has a detail marker
FetchRows ==
    {r \in Rows : r.has_detail /\ r.valid /\ r.bid_notice_number \in {"a1", "b2"}}

FetchOther == <<stats_reports, save_pc, storage_file, early_exit_threshold, pc, current_page_num,
                idx, runs, sinks, raised, max_pages, failed_items, detail_tabs>>

NoFetch ==
    [id |-> "", class |-> "none", kind |-> "none", error |-> "", steps |-> << >>,
     row |-> FALSE, soft_restore_failed |-> FALSE, hard_restore_failed |-> FALSE,
     paths |-> << >>, retrieved_by |-> "none", dated |-> FALSE,
     committed |-> FALSE, stored |-> FALSE, failed |-> FALSE]

\* what an observer of one invocation notes down
FetchDigest(notice_data, class, fetch, dated, before, w) ==
    IF class # "new" THEN [NoFetch EXCEPT !.id = notice_data.bid_notice_number, !.class = class]
    ELSE [id |-> notice_data.bid_notice_number, class |-> class, kind |-> fetch.kind,
          error |-> fetch.error, steps |-> fetch.steps, row |-> fetch.row,
          soft_restore_failed |-> fetch.soft_restore_failed,
          hard_restore_failed |-> fetch.hard_restore_failed,
          paths |-> fetch.paths, retrieved_by |-> fetch.retrieved_by, dated |-> dated,
          committed |-> /\ notice_data.bid_notice_number \in Range(w.cm.processed_items)
                        /\ Len(w.collected) = Len(before.collected) + 1
                        /\ generate_hash(w.dm, notice_data) \in w.dm.seen_hashes,
          stored |-> \/ Len(w.collected) > Len(before.collected)
                     \/ notice_data.bid_notice_number \in Range(w.cm.processed_items)
                     \/ generate_hash(w.dm, notice_data) \in w.dm.seen_hashes,
          failed |-> Len(w.cm.failed_items) = Len(before.cm.failed_items) + 1]

FetchHist(impl, digest) ==
    [impl |-> impl, n |-> hist.n + 1, last |-> digest,
     lost |-> hist.lost \/ digest.hard_restore_failed,
     after_lost |-> IF hist.lost THEN hist.after_lost + 1 ELSE hist.after_lost]

FtProcessNotice ==
    /\ hist.n < MaxFetches
    /\ pc = "items"
    /\ hist.impl = "processor"
    /\ \E notice_data \in FetchRows, env \in FetchEnvs :
          \E fetch \in {fetch_detail_page(env, notice_data, current_page_num)},
             w0 \in {Workflow(checkpoint_manager, checkpoint_file, temp_file,
                              dedup_manager, collected_notices, total_count, stats,
                              processor_consecutive_duplicates)},
             class \in {Classify(checkpoint_manager, dedup_manager, notice_data)} :
             \E w \in {process_notice(w0, notice_data, fetch)} :
                /\ checkpoint_manager' = w.cm
                /\ checkpoint_file' = w.file
                /\ temp_file' = w.temp
                /\ dedup_manager' = w.dm
                /\ collected_notices' = w.collected
                /\ total_count' = w.total_count
                /\ stats' = w.stats
                /\ processor_consecutive_duplicates' = w.consecutive
                /\ browser_page' = IF class = "new" THEN fetch.at ELSE browser_page
                /\ hist' = FetchHist("processor",
                               FetchDigest(notice_data, class, fetch,
                                   "opening_date" \in notice_data.filled \cup env.detail_filled,
                                   w0, w))
    /\ UNCHANGED consecutive_duplicates
    /\ UNCHANGED FetchOther

FtEngineProcessNotice ==
    /\ hist.n < MaxFetches
    /\ pc = "items"
    /\ hist.impl = "engine"
    /\ \E notice_data \in FetchRows, env \in FetchEnvs :
          \E second \in (IF engine_fetch_attempt(env, notice_data, current_page_num).kind = "raise"
                         THEN RetryEnvs ELSE {env}) :
          \E third \in (IF engine_fetch_attempt(second, notice_data, current_page_num).kind = "raise"
                        THEN RetryEnvs ELSE {second}) :
          \E retried \in {engine_fetch_detail_page(<<env, second, third>>, notice_data,
                                                   current_page_num)} :
          \E fetch \in {retried.result},
             w0 \in {Workflow(checkpoint_manager, checkpoint_file, temp_file,
                              dedup_manager, collected_notices, total_count, stats,
                              consecutive_duplicates)},
             class \in {Classify(checkpoint_manager, dedup_manager, notice_data)} :
             \E w \in {engine_process_notice(w0, notice_data, fetch)},
                last_env \in {<<env, second, third>>[retried.attempt]} :
                /\ checkpoint_manager' = w.cm
                /\ checkpoint_file' = w.file
                /\ temp_file' = w.temp
                /\ dedup_manager' = w.dm
                /\ collected_notices' = w.collected
                /\ total_count' = w.total_count
                /\ stats' = w.stats
                /\ consecutive_duplicates' = w.consecutive
                /\ browser_page' = IF class = "new" THEN fetch.at ELSE browser_page
                /\ hist' = FetchHist("engine",
                               FetchDigest(notice_data, class, fetch,
                                   "opening_date" \in notice_data.filled
                                                        \cup last_env.detail_filled,
                                   w0, w))
    /\ UNCHANGED processor_consecutive_duplicates
    /\ UNCHANGED FetchOther

\* the pages the list can stand on when a row is fetched
FetchPages == {1, 12}

InitFetch ==
    /\ checkpoint_manager = initialize_crawl(NewCheckpointManager, EmptyDict)
    /\ checkpoint_file = NoFile
    /\ temp_file = NoFile
    /\ save_pc = "idle"
    /\ dedup_manager = NewDeduplicationManager(KeyFields, TRUE, NoFile)
    /\ storage_file = NoFile
    /\ collected_notices = << >>
    /\ total_count = 0
    /\ stats = NewStats
    /\ consecutive_duplicates = 0
    /\ processor_consecutive_duplicates = 0
    /\ early_exit_threshold = MaxThreshold
    /\ pc = "items"
    /\ current_page_num \in FetchPages
    /\ idx = 0
    /\ runs = 0
    /\ sinks = << >>
    /\ raised = "none"
    /\ max_pages = 0
    /\ failed_items = << >>
    /\ detail_tabs = 0
    /\ stats_reports = 0
    /\ browser_page = current_page_num
    /\ \E impl \in {"processor", "engine"} :
          hist = [impl |-> impl, n |-> 0, last |-> NoFetch, lost |-> FALSE, after_lost |-> 0]

NextFetch ==
    \/ FtProcessNotice
    \/ FtEngineProcessNotice

SpecFetch == InitFetch /\ [][NextFetch]_vars

\* C13: when the pagination restore after the soft reset fails, the fetch
\* does not raise for it and goes on to the hard reset; when the restore
\* after the hard reset fails, the crawl is over: the page loop has left its
\* row position and no later item is processed.
C13_HardRestoreFailureIsFatal ==
    /\ hist.last.soft_restore_failed =>
          /\ hist.last.steps = <<"lookup", "soft_reset", "hard_reset">>
          /\ ~(hist.last.kind = "raise" /\ hist.last.paths = << >>)
    /\ hist.lost => pc # "items"
    /\ hist.after_lost = 0

\* C14: the ladder goes from the direct lookup to the soft reset and from
\* there to the hard reset, and an item whose row is still missing after the
\* hard reset is recorded in failed_items and is neither added to the
\* collection, nor marked as seen, nor marked as processed.
C14_ExhaustedLadderFailsItem ==
    hist.last.class = "new" =>
        /\ hist.last.steps \in {<<"lookup">>, <<"lookup", "soft_reset">>,
                                <<"lookup", "soft_reset", "hard_reset">>}
        /\ (Len(hist.last.steps) = 3 /\ ~hist.last.row) =>
              /\ hist.last.failed
              /\ ~hist.last.stored

\* C15: whichever path retrieved the detail (new tab, modal, in-page), the
\* fetch hands detail data back only with a non-empty opening_date; with an
\* empty one the attempt raises, the path that retrieved the content is the
\* last one tried, and the item is recorded in failed_items and is neither
\* collected, nor marked as seen, nor marked as processed.
C15_ValidationGate ==
    hist.last.class = "new" =>
        /\ hist.last.kind = "detail" =>
              /\ hist.last.dated
              /\ hist.last.retrieved_by \in {"new_tab", "modal", "in_page"}
        /\ (hist.last.retrieved_by # "none" /\ ~hist.last.dated) =>
              /\ hist.last.kind = "raise"
              /\ hist.last.paths[Len(hist.last.paths)] = hist.last.retrieved_by
              /\ hist.last.failed
              /\ ~hist.last.stored

C15_Witness ==
    /\ hist.last.class = "new"
    /\ hist.last.retrieved_by = "modal"
    /\ ~hist.last.dated
    /\ hist.last.kind = "raise"
    /\ hist.last.failed
    /\ hist.impl = "processor"

\* ===================================================================
\* SpecDedup: the dedup store alone. A behaviour constructs a
\* DeduplicationManager over the storage file, marks items, asks for
\* duplicates, saves, and constructs the store again, possibly with another
\* key-field list or switched off.
\* ===================================================================
\* deduplication.key_fields of the configuration
KeyFieldLists ==
    {<<"bid_notice_number">>, <<"bid_notice_number", "name">>,
     <<"name", "bid_notice_number">>}

\* the items handed to the store: equal up to case and blanks, equal in one
\* key field only, with "|" inside a value, without a field, with None
DedupItems ==
    {[bid_notice_number |-> "x", name |-> "z", title |-> "t1"],
     [bid_notice_number |-> "X ", name |-> "z", title |-> "t2"],
     [bid_notice_number |-> "x", name |-> "y|z", title |-> "t1"],
     [bid_notice_number |-> "x|y", name |-> "z", title |-> "t1"],
     [bid_notice_number |-> "x"],
     [bid_notice_number |-> "x", name |-> None, title |-> "t1"]}

DedupOther == <<stats_reports, checkpoint_manager, checkpoint_file, temp_file, save_pc,
                collected_notices, total_count, stats, consecutive_duplicates,
                processor_consecutive_duplicates, early_exit_threshold, pc,
                current_page_num, idx, runs, sinks, raised, max_pages, browser_page,
                failed_items, detail_tabs>>

\* the file an earlier run left: one item marked under the default key field
PriorSeenItems ==
    dedup_save(mark_as_seen(NewDeduplicationManager(KeyFields, TRUE, NoFile),
                            [bid_notice_number |-> "x", name |-> "z", title |-> "t1"]),
               NoFile)

NoCall == [op |-> "none", item |-> << >>, answer |-> FALSE]
NoFingerprint == [key_fields |-> << >>, item |-> << >>, hash |-> ""]

\* what an observer notes when a store is constructed over a file: the
\* file it met, whether its key-field list was another one, and the items
\* behind the fingerprints it took over
Constructed(key_fields, enabled, file, filed, n) ==
    LET reads == enabled /\ file.kind = "json"
    IN [ops |-> n, last |-> NoCall, fp |-> NoFingerprint, fp_prev |-> NoFingerprint,
        file0 |-> file,
        mismatch |-> reads /\ file.data.key_fields # key_fields,
        loaded |-> IF reads /\ file.data.key_fields = key_fields THEN filed ELSE {},
        marked |-> {}, saved |-> FALSE, filed |-> filed]

\* the fingerprints an observer has seen computed
Fingerprinted(item) ==
    IF dedup_manager.enabled
    THEN [hist EXCEPT !.fp = [key_fields |-> dedup_manager.key_fields, item |-> item,
                              hash |-> generate_hash(dedup_manager, item)],
                      !.fp_prev = hist.fp]
    ELSE hist

DdIsDuplicate ==
    /\ hist.ops < MaxDedupOps
    /\ \E item \in DedupItems :
          hist' = [Fingerprinted(item) EXCEPT
                      !.ops = @ + 1,
                      !.last = [op |-> "is_duplicate", item |-> item,
                                answer |-> is_duplicate(dedup_manager, item)]]
    /\ UNCHANGED <<dedup_manager, storage_file>>
    /\ UNCHANGED DedupOther

DdMarkAsSeen ==
    /\ hist.ops < MaxDedupOps
    /\ \E item \in DedupItems :
          /\ dedup_manager' = mark_as_seen(dedup_manager, item)
          /\ hist' = [Fingerprinted(item) EXCEPT
                         !.ops = @ + 1,
                         !.last = [op |-> "mark_as_seen", item |-> item, answer |-> FALSE],
                         !.marked = @ \cup {item}]
    /\ UNCHANGED storage_file
    /\ UNCHANGED DedupOther

DdSave ==
    /\ hist.ops < MaxDedupOps
    /\ storage_file' = dedup_save(dedup_manager, storage_file)
    /\ hist' = [hist EXCEPT !.ops = @ + 1,
                            !.last = [NoCall EXCEPT !.op = "save"],
                            !.saved = TRUE,
                            !.filed = IF dedup_manager.enabled
                                      THEN hist.loaded \cup hist.marked ELSE @]
    /\ UNCHANGED dedup_manager
    /\ UNCHANGED DedupOther

DdConstruct ==
    /\ hist.ops < MaxDedupOps
    /\ \E key_fields \in KeyFieldLists, enabled \in BOOLEAN :
          /\ dedup_manager' = NewDeduplicationManager(key_fields, enabled, storage_file)
          /\ hist' = Constructed(key_fields, enabled, storage_file, hist.filed, hist.ops + 1)
    /\ UNCHANGED storage_file
    /\ UNCHANGED DedupOther

InitDedup ==
    /\ checkpoint_manager = initialize_crawl(NewCheckpointManager, EmptyDict)
    /\ checkpoint_file = NoFile
    /\ temp_file = NoFile
    /\ save_pc = "idle"
    /\ \E key_fields \in KeyFieldLists, enabled \in BOOLEAN,
          prior \in {[file |-> NoFile, filed |-> {}],
                     [file |-> PriorSeenItems,
                      filed |-> {[bid_notice_number |-> "x", name |-> "z", title |-> "t1"]}]} :
          /\ storage_file = prior.file
          /\ dedup_manager = NewDeduplicationManager(key_fields, enabled, prior.file)
          /\ hist = Constructed(key_fields, enabled, prior.file, prior.filed, 0)
    /\ collected_notices = << >>
    /\ total_count = 0
    /\ stats = NewStats
    /\ consecutive_duplicates = 0
    /\ processor_consecutive_duplicates = 0
    /\ early_exit_threshold = MaxThreshold
    /\ pc = "idle"
    /\ current_page_num = 1
    /\ idx = 0
    /\ runs = 0
    /\ sinks = << >>
    /\ raised = "none"
    /\ max_pages = MaxPages
    /\ failed_items = << >>
    /\ detail_tabs = 0
    /\ stats_reports = 0
    /\ browser_page = 0

NextDedup ==
    \/ DdIsDuplicate
    \/ DdMarkAsSeen
    \/ DdSave
    \/ DdConstruct

SpecDedup == InitDedup /\ [][NextDedup]_vars

\* the trimmed, case-folded strings of the key fields of an item, in the
\* order of the list; a missing field and None count as ""
KeyStrings(item, key_fields) ==
    [i \in DOMAIN key_fields |->
        IF key_fields[i] \notin DOMAIN item THEN ""
        ELSE IF item[key_fields[i]] = None THEN ""
        ELSE Normalized[item[key_fields[i]]]]

\* the items behind the fingerprints of the store
SeenItems == hist.loaded \cup hist.marked

\* C17: in an enabled store, is_duplicate(item) is true for every item that
\* was marked as seen, and false for every item whose key strings differ, in
\* at least one configured key field, from those of every item seen.
C17_DuplicateIffSeen ==
    (dedup_manager.enabled /\ hist.last.op = "is_duplicate") =>
        /\ hist.last.item \in hist.marked => hist.last.answer
        /\ (\A seen \in SeenItems :
               KeyStrings(seen, dedup_manager.key_fields)
                  # KeyStrings(hist.last.item, dedup_manager.key_fields))
              => ~hist.last.answer

\* C18: two items whose trimmed, case-folded key-field strings are equal in
\* the configured order get the same fingerprint, whatever other fields they
\* carry and whether a key field is missing, None or empty.
C18_FingerprintOfKeyFields ==
    (hist.fp.hash # "" /\ hist.fp_prev.hash # ""
        /\ hist.fp.key_fields = hist.fp_prev.key_fields
        /\ KeyStrings(hist.fp.item, hist.fp.key_fields)
              = KeyStrings(hist.fp_prev.item, hist.fp.key_fields))
       => hist.fp.hash = hist.fp_prev.hash

C18_Witness ==
    /\ hist.fp_prev.item = [bid_notice_number |-> "x", name |-> "z", title |-> "t1"]
    /\ hist.fp.item = [bid_notice_number |-> "X ", name |-> "z", title |-> "t2"]
    /\ hist.fp.key_fields = <<"name", "bid_notice_number">>
    /\ hist.fp_prev.key_fields = hist.fp.key_fields
    /\ hist.fp.hash = hist.fp_prev.hash

\* C19: a disabled store answers no to every is_duplicate, holds no
\* fingerprint whatever was marked, and leaves the storage file as it was
\* when the store was constructed, whatever was saved.
C19_DisabledStoreIsInert ==
    ~dedup_manager.enabled =>
        /\ hist.last.op = "is_duplicate" => ~hist.last.answer
        /\ dedup_manager.seen_hashes = {}
        /\ dedup_manager.seen_items = EmptyDict
        /\ storage_file = hist.file0

C19_Witness ==
    /\ ~dedup_manager.enabled
    /\ hist.saved
    /\ hist.last.op = "is_duplicate"
    /\ hist.last.item \in hist.marked
    /\ ~hist.last.answer
    /\ storage_file = NoFile

\* C20: an enabled store constructed over a file with another key-field
\* list holds no fingerprint and reports no duplicate until it marks an item
\* itself, and its save leaves a file with the configured list and exactly
\* the fingerprints of the items marked since; constructed over a file with
\* the same list, it reports every item behind the file as a duplicate.
C20_KeyFieldMismatchDiscards ==
    dedup_manager.enabled =>
        /\ (hist.mismatch /\ hist.marked = {}) =>
              /\ dedup_manager.seen_hashes = {}
              /\ hist.last.op = "is_duplicate" => ~hist.last.answer
        /\ (hist.mismatch /\ hist.last.op = "save") =>
              /\ storage_file.kind = "json"
              /\ storage_file.data.key_fields = dedup_manager.key_fields
              /\ DOMAIN storage_file.data.seen_items
                    = {generate_hash(dedup_manager, item) : item \in hist.marked}
        /\ (~hist.mismatch /\ hist.last.op = "is_duplicate"
                /\ hist.last.item \in hist.loaded) => hist.last.answer

C20_Witness ==
    /\ dedup_manager.enabled
    /\ hist.mismatch
    /\ hist.last.op = "save"
    /\ hist.marked = {[bid_notice_number |-> "x", name |-> "y|z", title |-> "t1"]}
    /\ hist.file0 = PriorSeenItems
    /\ storage_file # PriorSeenItems

\* ===================================================================
\* SpecDedupCrash: DeduplicationManager.save taken step by step (open for
\* writing, dump) with a process that can be killed between the steps and
\* started again over the file it left.
\* ===================================================================
DedupCrashOther == <<stats_reports, checkpoint_manager, checkpoint_file, temp_file,
                     collected_notices, total_count, stats, consecutive_duplicates,
                     processor_consecutive_duplicates, early_exit_threshold, pc,
                     current_page_num, idx, runs, sinks, raised, max_pages, browser_page,
                     failed_items, detail_tabs>>

\* save: open(self.storage_file, 'w') empties the file
dedup_save_open(dm, file) == IF ~dm.enabled THEN file ELSE Truncated

\* save: json.dump(data, f) and the close of the with block
dedup_save_dump(dm, file) == dedup_save(dm, file)

DcMarkAsSeen ==
    /\ save_pc = "idle"
    /\ hist.ops < MaxDedupOps
    /\ \E item \in DedupItems :
          dedup_manager' = mark_as_seen(dedup_manager, item)
    /\ hist' = [hist EXCEPT !.ops = @ + 1, !.last = "mark_as_seen"]
    /\ UNCHANGED <<storage_file, save_pc>>
    /\ UNCHANGED DedupCrashOther

DcSaveOpen ==
    /\ save_pc = "idle"
    /\ hist.ops < MaxDedupOps
    /\ storage_file' = dedup_save_open(dedup_manager, storage_file)
    /\ save_pc' = "dumping"
    /\ hist' = [hist EXCEPT !.ops = @ + 1, !.last = "open", !.previous = storage_file]
    /\ UNCHANGED dedup_manager
    /\ UNCHANGED DedupCrashOther

DcSaveDump ==
    /\ save_pc = "dumping"
    /\ storage_file' = dedup_save_dump(dedup_manager, storage_file)
    /\ save_pc' = "idle"
    /\ hist' = [hist EXCEPT !.last = "dump", !.previous = storage_file']
    /\ UNCHANGED dedup_manager
    /\ UNCHANGED DedupCrashOther

\* the process is killed and a new one constructs its store over the file
DcKill ==
    /\ hist.ops < MaxDedupOps
    /\ dedup_manager' = NewDeduplicationManager(dedup_manager.key_fields, TRUE, storage_file)
    /\ save_pc' = "idle"
    /\ hist' = [hist EXCEPT !.ops = @ + 1, !.last = "construct",
                            !.killed_in_save = save_pc = "dumping"]
    /\ UNCHANGED storage_file
    /\ UNCHANGED DedupCrashOther

InitDedupCrash ==
    /\ checkpoint_manager = initialize_crawl(NewCheckpointManager, EmptyDict)
    /\ checkpoint_file = NoFile
    /\ temp_file = NoFile
    /\ save_pc = "idle"
    /\ \E key_fields \in KeyFieldLists, file \in {NoFile, PriorSeenItems} :
          /\ storage_file = file
          /\ dedup_manager = NewDeduplicationManager(key_fields, TRUE, file)
          /\ hist = [ops |-> 0, last |-> "construct", previous |-> file,
                     killed_in_save |-> FALSE]
    /\ collected_notices = << >>
    /\ total_count = 0
    /\ stats = NewStats
    /\ consecutive_duplicates = 0
    /\ processor_consecutive_duplicates = 0
    /\ early_exit_threshold = MaxThreshold
    /\ pc = "idle"
    /\ current_page_num = 1
    /\ idx = 0
    /\ runs = 0
    /\ sinks = << >>
    /\ raised = "none"
    /\ max_pages = MaxPages
    /\ failed_items = << >>
    /\ detail_tabs = 0
    /\ stats_reports = 0
    /\ browser_page = 0

NextDedupCrash ==
    \/ DcMarkAsSeen
    \/ DcSaveOpen
    \/ DcSaveDump
    \/ DcKill

SpecDedupCrash == InitDedupCrash /\ [][NextDedupCrash]_vars

\* C21: whenever the process can be killed, the dedup file holds either the
\* complete contents it had before the save or the complete new contents,
\* and a store constructed after a kill inside save holds every fingerprint
\* of the last complete file.
C21_DedupSaveAtomic ==
    /\ storage_file.kind # "truncated"
    /\ save_pc = "dumping" => storage_file = hist.previous
    /\ (hist.last = "construct" /\ hist.previous.kind = "json"
           /\ hist.previous.data.key_fields = dedup_manager.key_fields) =>
          dedup_manager.seen_hashes = DOMAIN hist.previous.data.seen_items

\* ===================================================================
\* SpecInvocations: invocations of the program on one checkpoint
\* directory, one after the other: main.run_crawler (which decides the
\* resume flag and calls run()) and the retry pass
\* (CrawlerEngine.retry_failed_items, RetryManager.process_retries), each
\* in a process of its own that can be killed between two steps.
\* ===================================================================
MaxInvocations == 2   \* invocations in one behaviour of SpecInvocations
MaxRetried == 2       \* rows the crawl loop handles in one behaviour of SpecInvocations

\* a run_crawler that hands the resume flag to run() as it got it
smart_resume_plain(resume, file) == resume

\* main.run_crawler, the smart resume: the flag run() is called with
smart_resume(resume, file) ==
    LET r == load_checkpoint(NewCheckpointManager, file)
    IN IF resume /\ r.found /\ r.cm.state = "COMPLETED" THEN FALSE ELSE resume

\* the rows the list serves in SpecInvocations: notices with a detail page
InvocationRows ==
    {r \in EngineRows : r.bid_notice_number \in {"a1", "b2"} /\ r.has_detail}

\* the row loop over the rows of SpecInvocations
InvProcessNotice == ProcessNoticeOf(InvocationRows, MaxRetried)

\* the item ids of the failed entries a checkpoint file lists
FailedIds(file) ==
    IF file.kind = "json" THEN {e.item_id : e \in Range(file.data.failed_items)}
    ELSE {}

\* what an observer of the invocations notes down, besides what it notes
\* of a run: the state value of the checkpoint the invocation loaded (none:
\* it loaded nothing), the last entry the retry pass handled and how that
\* went, whether it called remove_failed_item for it, and the items whose
\* retry was committed, in all and before the present invocation, and
\* whether run_crawler was asked to resume
InvocationHist0 ==
    [step |-> "none", signal |-> "none", absorbed |-> FALSE, items |-> 0,
     dups |-> 0, early_exit |-> FALSE, exit_cursor |-> 0, exit_idx |-> 0,
     page_errors |-> 0, aborted |-> FALSE, resumed_from |-> 0,
     loaded |-> "none", bid_no |-> "none", outcome |-> "none", removed |-> FALSE,
     fixed |-> {}, fixed_before |-> {}, requested |-> FALSE]

InvocationStarts(loaded) ==
    [InvocationHist0 EXCEPT !.items = hist.items, !.loaded = loaded,
                            !.fixed = hist.fixed, !.fixed_before = hist.fixed]

\* a process starts: main.run_crawler, CrawlerEngine(config) and the first
\* lines of run(resume)
InvRunCrawler ==
    /\ pc = "idle"
    /\ runs < MaxInvocations
    /\ \E flag \in BOOLEAN :
       \E resume \in {smart_resume(flag, checkpoint_file)} :
       \E r \in {load_checkpoint(NewCheckpointManager, checkpoint_file)} :
          /\ checkpoint_manager' = load_or_initialize(resume, checkpoint_file)
          /\ hist' = [InvocationStarts(IF resume /\ r.found
                                       THEN checkpoint_file.data.state ELSE "none")
                        EXCEPT !.resumed_from =
                                  IF resume /\ r.found THEN r.cm.current_page ELSE 0,
                               !.requested = flag]
    /\ dedup_manager' = NewDeduplicationManager(KeyFields, TRUE, storage_file)
    /\ collected_notices' = << >>
    /\ total_count' = 0
    /\ stats' = NewStats
    /\ consecutive_duplicates' = 0
    /\ pc' = "navigate"
    /\ current_page_num' = 1
    /\ idx' = 0
    /\ runs' = runs + 1
    /\ raised' = "none"
    /\ browser_page' = 0
    /\ UNCHANGED <<checkpoint_file, temp_file, storage_file, sinks>>
    /\ UNCHANGED EngineOther

\* a process starts the retry pass: CrawlerEngine(config) (or the objects a
\* RetryManager is built on), load_checkpoint, get_failed_items and the
\* navigation to the list
RetryStart(loop) ==
    /\ pc = "idle"
    /\ runs < MaxInvocations
    /\ \E r \in {load_checkpoint(NewCheckpointManager, checkpoint_file)} :
          /\ checkpoint_manager' = r.cm
          /\ hist' = InvocationStarts(IF r.found THEN checkpoint_file.data.state
                                      ELSE "none")
          /\ IF ~r.found \/ get_failed_items(r.cm) = << >>
             THEN /\ pc' = "idle"
                  /\ raised' = "none"
                  /\ failed_items' = << >>
                  /\ browser_page' = 0
             ELSE /\ failed_items' = get_failed_items(r.cm)
                  /\ \/ /\ pc' = loop
                        /\ raised' = "none"
                        /\ browser_page' = 1
                     \/ /\ pc' = "idle"
                        /\ raised' = "Failed to navigate"
                        /\ browser_page' = 0
    /\ dedup_manager' = NewDeduplicationManager(KeyFields, TRUE, storage_file)
    /\ collected_notices' = << >>
    /\ total_count' = 0
    /\ stats' = NewStats
    /\ consecutive_duplicates' = 0
    /\ current_page_num' = 1
    /\ idx' = 0
    /\ runs' = runs + 1
    /\ UNCHANGED <<checkpoint_file, temp_file, storage_file, sinks, save_pc,
                   processor_consecutive_duplicates, early_exit_threshold,
                   max_pages, detail_tabs, stats_reports>>

\* CrawlerEngine.retry_failed_items up to its loop
EngineRetryStart == RetryStart("engine_retry")

\* RetryManager.process_retries up to its loop
ProcessRetriesStart == RetryStart("retry")

\* how the retry of one entry went: the lookup did not find the item, the
\* workflow skipped it, recorded a failure for it, or committed it
RetryOutcome(found, class, w) ==
    IF ~found THEN "not_found"
    ELSE IF w.raised_at # "none" THEN "failed_again"
    ELSE IF class = "new" THEN "committed"
    ELSE "skipped"

\* one turn of the loop of the retry pass: the targeted lookup
\* (search_and_process_item: False when the item is not found or the lookup
\* raises, else the workflow on the row found and True), and on True
\* remove_failed_item and the save of the deduplication store
RetryTurn(loop, found, notice_data, w) ==
    /\ pc = loop
    /\ idx < Len(failed_items)
    /\ LET bid_no == failed_items[idx + 1].item_id
           class == Classify(checkpoint_manager, dedup_manager, notice_data)
       IN /\ notice_data.bid_notice_number = bid_no
          /\ IF found
             THEN \E r \in {remove_failed_item(w.cm, w.file, w.temp, bid_no)} :
                     /\ checkpoint_manager' = r.cm
                     /\ checkpoint_file' = r.file
                     /\ temp_file' = r.temp
                     /\ dedup_manager' = w.dm
                     /\ storage_file' = dedup_save(w.dm, storage_file)
                     /\ collected_notices' = w.collected
                     /\ total_count' = w.total_count
                     /\ stats' = w.stats
             ELSE UNCHANGED <<checkpoint_manager, checkpoint_file, temp_file,
                              dedup_manager, storage_file, collected_notices, total_count, stats>>
          /\ hist' = [hist EXCEPT
                        !.bid_no = bid_no,
                        !.outcome = RetryOutcome(found, class, w),
                        !.removed = found,
                        !.fixed = IF RetryOutcome(found, class, w) = "committed"
                                  THEN @ \cup {bid_no} ELSE @]
    /\ idx' = idx + 1
    /\ pc' = loop
    /\ UNCHANGED <<failed_items, current_page_num, runs, sinks, raised,
                   browser_page, save_pc, early_exit_threshold, max_pages,
                   detail_tabs, stats_reports>>

\* the loop of CrawlerEngine.retry_failed_items, with _search_and_process_item
EngineRetryTurn ==
    \E found \in BOOLEAN : \E notice_data \in InvocationRows :
    \E fetch \in EngineFetchFor(notice_data) :
    \E w \in {engine_process_notice(
                 Workflow(checkpoint_manager, checkpoint_file, temp_file,
                          dedup_manager, collected_notices, total_count, stats,
                          consecutive_duplicates),
                 notice_data, fetch)} :
       /\ RetryTurn("engine_retry", found, notice_data, w)
       /\ consecutive_duplicates' = IF found THEN w.consecutive
                                    ELSE consecutive_duplicates
       /\ UNCHANGED processor_consecutive_duplicates

\* the rows the lookup of RetryManager can find
RetryRows == {r \in Rows : r.bid_notice_number \in {"a1", "b2"} /\ r.has_detail}

\* the loop of RetryManager.process_retries, with search_and_process_item
ProcessRetriesTurn ==
    \E found \in BOOLEAN : \E notice_data \in RetryRows :
    \E fetch \in FetchFor(notice_data) :
    \E w \in {process_notice(
                 Workflow(checkpoint_manager, checkpoint_file, temp_file,
                          dedup_manager, collected_notices, total_count, stats,
                          processor_consecutive_duplicates),
                 notice_data, fetch)} :
       /\ RetryTurn("retry", found, notice_data, w)
       /\ processor_consecutive_duplicates' = IF found THEN w.consecutive
                                              ELSE processor_consecutive_duplicates
       /\ UNCHANGED consecutive_duplicates

\* the retry pass after its loop: _save_data (the save callback), and the
\* pass returns
RetryFinish ==
    /\ pc \in {"engine_retry", "retry"}
    /\ idx = Len(failed_items)
    /\ LET d == save_data(collected_notices, sinks)
       IN /\ collected_notices' = d.collected
          /\ UNCHANGED total_count
          /\ sinks' = d.sinks
    /\ pc' = "idle"
    /\ hist' = [hist EXCEPT !.step = "returned"]
    /\ UNCHANGED <<checkpoint_manager, checkpoint_file, temp_file, dedup_manager,
                   storage_file, stats, consecutive_duplicates, current_page_num,
                   idx, runs, raised, browser_page>>
    /\ UNCHANGED EngineOther

\* the process is killed between two steps: its memory is gone, the files stay
InvKill ==
    /\ pc # "idle"
    /\ checkpoint_manager' = NewCheckpointManager
    /\ dedup_manager' = NewDeduplicationManager(KeyFields, TRUE, NoFile)
    /\ collected_notices' = << >>
    /\ total_count' = 0
    /\ stats' = NewStats
    /\ consecutive_duplicates' = 0
    /\ processor_consecutive_duplicates' = 0
    /\ failed_items' = << >>
    /\ current_page_num' = 1
    /\ idx' = 0
    /\ pc' = "idle"
    /\ raised' = "killed"
    /\ browser_page' = 0
    /\ hist' = [InvocationStarts("none") EXCEPT !.fixed_before = hist.fixed_before]
    /\ UNCHANGED <<checkpoint_file, temp_file, storage_file, runs, sinks, save_pc,
                   early_exit_threshold, max_pages, detail_tabs, stats_reports>>

\* what a crawl of the rows a1 and b2 leaves on disk when the detail fetch
\* raised for both of them
FailedItemCrawl ==
    LET row(id) == [bid_notice_number |-> id, has_detail |-> TRUE, filled |-> {},
                    notes |-> FALSE, valid |-> TRUE, fallback_valid |-> TRUE]
        w0 == Workflow(load_or_initialize(FALSE, NoFile), NoFile, NoFile,
                       NewDeduplicationManager(KeyFields, TRUE, NoFile),
                       << >>, 0, NewStats, 0)
        w1 == engine_process_notice(w0, row("a1"),
                                    [kind |-> "raise",
                                     error |-> "Failed to open detail page"])
        w2 == engine_process_notice(w1, row("b2"),
                                    [kind |-> "raise",
                                     error |-> "Failed to open detail page"])
        c == complete_crawl(w2.cm, w2.file, w2.temp, TRUE)
    IN [checkpoint_file |-> c.file, temp_file |-> c.temp,
        storage_file |-> dedup_save(w2.dm, NoFile),
        sinks |-> save_data(w2.collected, << >>).sinks]

\* what a run leaves on disk whose navigation to the list failed
AbortedCrawl ==
    LET h == on_exception(load_or_initialize(FALSE, NoFile), NoFile, NoFile, NewStats)
    IN [checkpoint_file |-> h.file, temp_file |-> h.temp, storage_file |-> NoFile,
        sinks |-> << >>]

InitInvocations ==
    /\ checkpoint_manager = NewCheckpointManager
    /\ \E prior \in {NoPriorCrawl, FailedItemCrawl, PausedCrawl, AbortedCrawl} :
          /\ checkpoint_file = prior.checkpoint_file
          /\ temp_file = prior.temp_file
          /\ storage_file = prior.storage_file
          /\ sinks = prior.sinks
    /\ save_pc = "idle"
    /\ dedup_manager = NewDeduplicationManager(KeyFields, TRUE, NoFile)
    /\ collected_notices = << >>
    /\ total_count = 0
    /\ stats = NewStats
    /\ consecutive_duplicates = 0
    /\ processor_consecutive_duplicates = 0
    /\ early_exit_threshold = MaxThreshold
    /\ pc = "idle"
    /\ current_page_num = 1
    /\ idx = 0
    /\ runs = 0
    /\ raised = "none"
    /\ max_pages = 1
    /\ failed_items = << >>
    /\ detail_tabs = 0
    /\ stats_reports = 0
    /\ browser_page = 0
    /\ hist = InvocationHist0

NextInvocations ==
    \/ InvRunCrawler
    \/ NavigateToPage
    \/ CrawlListPage
    \/ InvProcessNotice
    \/ NextPage
    \/ CompleteCrawl
    \/ SaveData
    \/ DedupSave
    \/ EngineRetryStart
    \/ ProcessRetriesStart
    \/ EngineRetryTurn
    \/ ProcessRetriesTurn
    \/ RetryFinish
    \/ InvKill

SpecInvocations == InitInvocations /\ [][NextInvocations]_vars

\* C23: an invocation that loaded a checkpoint whose state is Completed or
\* Failed (a run that resumes it, a retry pass) leaves the checkpoint in
\* that state, and no checkpoint on disk is in the state Initialized after
\* an invocation has loaded or started one.
C23_TerminalStatesAreFinal ==
    /\ (hist.loaded \in {"completed", "failed"} /\ checkpoint_file.kind = "json") =>
          checkpoint_file.data.state = hist.loaded
    /\ (runs > 0 /\ checkpoint_file.kind = "json") =>
          checkpoint_file.data.state # "initialized"

\* C24: while a run crawls pages the checkpoint state is InProgress, in
\* memory and in the document an automatic save writes at that moment, for
\* a fresh start and for a run resumed from a loaded Paused checkpoint.
C24_CrawlingIsInProgress ==
    (pc \in {"page", "items"} /\ hist.loaded \in {"none", "paused"}) =>
        /\ checkpoint_manager.state = "IN_PROGRESS"
        /\ CheckpointData(checkpoint_manager).state = "in_progress"

\* C26: no step takes an item out of the failed items the checkpoint file
\* lists, except the remove_failed_item call the retry pass makes for that
\* item: not a resumed run, not a new run, not the start of a retry pass.
C26_FailedItemsKept ==
    [][\A id \in FailedIds(checkpoint_file) \ FailedIds(checkpoint_file') :
          /\ pc \in {"engine_retry", "retry"}
          /\ hist'.removed
          /\ hist'.bid_no = id]_vars

\* C27: once the retry pass has committed a failed item, and before it
\* starts on its next entry, the checkpoint file no longer lists the item
\* as failed and lists its id as processed, and the deduplication file
\* holds its fingerprint; a retry pass never has an item before it whose
\* retry an earlier pass committed.
C27_CommittedRetryIsPersisted ==
    /\ hist.outcome = "committed" =>
          /\ checkpoint_file.kind = "json"
          /\ hist.bid_no \notin FailedIds(checkpoint_file)
          /\ hist.bid_no \in Range(checkpoint_file.data.processed_items)
          /\ storage_file.kind = "json"
          /\ generate_hash(dedup_manager, [bid_notice_number |-> hist.bid_no])
                \in DOMAIN storage_file.data.seen_items
    /\ pc \in {"engine_retry", "retry"} =>
          \A i \in (idx + 1)..Len(failed_items) :
             failed_items[i].item_id \notin hist.fixed_before

\* C28: when the lookup of the retry pass does not find the item, or the
\* workflow records a failure for it again, the checkpoint file still
\* lists the item as failed once the pass has handled the entry.
C28_FailedRetryStaysListed ==
    hist.outcome \in {"not_found", "failed_again"} =>
        hist.bid_no \in FailedIds(checkpoint_file)

\* C36: run_crawler asked to resume starts a fresh crawl (state IN_PROGRESS,
\* page 1, no processed ids, no failed items) when the checkpoint file holds
\* the state completed or does not load; for a file that loads with any
\* other state it goes on with the page, the processed ids and the failed
\* items of the file, and the page loop starts from that page. Asked not to
\* resume it starts fresh.
C36_SmartResume ==
    [][/\ (pc = "idle" /\ pc' = "navigate") =>
             LET fresh == /\ checkpoint_manager'.state = "IN_PROGRESS"
                          /\ checkpoint_manager'.current_page = 1
                          /\ checkpoint_manager'.processed_items = << >>
                          /\ checkpoint_manager'.failed_items = << >>
                 loadable == /\ checkpoint_file.kind = "json"
                             /\ checkpoint_file.data.state \in
                                   {"initialized", "in_progress", "paused",
                                    "completed", "failed"}
             IN IF hist'.requested /\ loadable /\ checkpoint_file.data.state # "completed"
                THEN /\ StateValue(checkpoint_manager'.state) = checkpoint_file.data.state
                     /\ checkpoint_manager'.current_page = checkpoint_file.data.current_page
                     /\ checkpoint_manager'.processed_items =
                           checkpoint_file.data.processed_items
                     /\ checkpoint_manager'.failed_items = checkpoint_file.data.failed_items
                ELSE fresh
       /\ (pc = "navigate" /\ pc' = "page") =>
             current_page_num' = checkpoint_manager.current_page]_vars

\* C36 witness: asked to resume on a completed checkpoint that lists failed
\* items, the invocation has started a fresh crawl
C36_Witness ==
    /\ pc = "navigate"
    /\ hist.requested
    /\ checkpoint_file.kind = "json"
    /\ checkpoint_file.data.state = "completed"
    /\ checkpoint_file.data.failed_items # << >>
    /\ checkpoint_manager.state = "IN_PROGRESS"
    /\ checkpoint_manager.failed_items = << >>
    /\ checkpoint_manager.current_page = 1

\* C38: whatever runs, resumed runs and retry passes have worked on the
\* checkpoint, no item id is in processed_items and in failed_items at the
\* same time, and the statistics total_processed and total_failed are the
\* lengths of the two lists.
C38_ProcessedAndFailedDisjoint ==
    /\ Range(checkpoint_manager.processed_items)
          \cap {e.item_id : e \in Range(checkpoint_manager.failed_items)} = {}
    /\ "total_processed" \in DOMAIN checkpoint_manager.statistics =>
          checkpoint_manager.statistics["total_processed"]
             = Len(checkpoint_manager.processed_items)
    /\ "total_failed" \in DOMAIN checkpoint_manager.statistics =>
          checkpoint_manager.statistics["total_failed"]
             = Len(checkpoint_manager.failed_items)

\* C35: every invocation of run_crawler that ends (run() returned, or
\* raised KeyboardInterrupt or an exception) has written its statistics
\* (pages, extracted, skipped, errors) to the log.
C35_StatisticsAlwaysReported ==
    [][(pc # "idle" /\ pc' = "idle" /\ raised' # "killed"
           /\ pc \notin {"engine_retry", "retry"}) =>
         stats_reports' = stats_reports + 1]_vars

\* ===================================================================
\* SpecLoad: load_checkpoint on a store that has been worked with, over a
\* checkpoint file that may be missing, unreadable, cut short or written
\* by something that knows other state values; and the first lines of
\* run() over the same file.
\* ===================================================================
MaxLoadOps == 4       \* store operations in one behaviour of SpecLoad

\* a file open() raises PermissionError on
Unreadable == [kind |-> "unreadable"]

\* a complete JSON document whose state is no value of CrawlState
UnknownStateFile(doc) == JsonFile([doc EXCEPT !.state = "resuming"])

LoadOther == <<stats_reports, save_pc, dedup_manager, storage_file, collected_notices, total_count, stats,
               consecutive_duplicates, processor_consecutive_duplicates,
               early_exit_threshold, pc, current_page_num, idx, runs, sinks, raised,
               max_pages, browser_page, failed_items, detail_tabs>>

\* the last call, the store and the file it found, and what it returned
LoadHist(n, call, before, file, resume, found) ==
    [n |-> n, call |-> call, before |-> before, file |-> file, resume |-> resume,
     found |-> found]

\* one call of the store that works on the checkpoint: initialize_crawl,
\* mark_item_processed, mark_item_failed, advance_page, save_checkpoint
LdStoreCall ==
    /\ hist.n < MaxLoadOps
    /\ \E item_id \in {"a1", "b2"} :
       \E r \in {[cm |-> initialize_crawl(checkpoint_manager, [target |-> "NuriJangter"]),
                  file |-> checkpoint_file, temp |-> temp_file],
                 mark_item_processed(checkpoint_manager, checkpoint_file, temp_file,
                                     item_id),
                 [cm |-> mark_item_failed(checkpoint_manager, item_id,
                                          "Validation Failed"),
                  file |-> checkpoint_file, temp |-> temp_file],
                 [cm |-> advance_page(checkpoint_manager),
                  file |-> checkpoint_file, temp |-> temp_file],
                 save_checkpoint(checkpoint_manager, checkpoint_file, temp_file, TRUE)} :
          /\ checkpoint_manager' = r.cm
          /\ checkpoint_file' = r.file
          /\ temp_file' = r.temp
    /\ hist' = LoadHist(hist.n + 1, "store", checkpoint_manager, checkpoint_file,
                        FALSE, FALSE)
    /\ UNCHANGED LoadOther

\* the checkpoint file is deleted, made unreadable, cut short, or rewritten
\* with a state value CrawlState does not know
LdFileChanges ==
    /\ hist.call # "file"
    /\ checkpoint_file' \in
          {NoFile, Unreadable, Truncated} \cup
          (IF checkpoint_file.kind = "json"
           THEN {UnknownStateFile(checkpoint_file.data)} ELSE {})
    /\ checkpoint_file' # checkpoint_file
    /\ hist' = LoadHist(hist.n, "file", checkpoint_manager, checkpoint_file,
                        FALSE, FALSE)
    /\ UNCHANGED <<checkpoint_manager, temp_file>>
    /\ UNCHANGED LoadOther

\* CheckpointManager.load_checkpoint on the store as it is
LdLoadCheckpoint ==
    /\ hist.call # "load"
    /\ \E r \in {load_checkpoint(checkpoint_manager, checkpoint_file)} :
          /\ checkpoint_manager' = r.cm
          /\ hist' = LoadHist(hist.n, "load", checkpoint_manager, checkpoint_file,
                              FALSE, r.found)
    /\ UNCHANGED <<checkpoint_file, temp_file>>
    /\ UNCHANGED LoadOther

\* CrawlerEngine(config) and the first lines of run(resume)
LdRun ==
    /\ hist.call # "run"
    /\ \E resume \in BOOLEAN :
          /\ checkpoint_manager' = load_or_initialize(resume, checkpoint_file)
          /\ hist' = LoadHist(hist.n, "run", NewCheckpointManager, checkpoint_file,
                              resume,
                              load_checkpoint(NewCheckpointManager,
                                              checkpoint_file).found)
    /\ UNCHANGED <<checkpoint_file, temp_file>>
    /\ UNCHANGED LoadOther

InitLoad ==
    /\ checkpoint_manager = NewCheckpointManager
    /\ checkpoint_file = NoFile
    /\ temp_file = NoFile
    /\ save_pc = "idle"
    /\ dedup_manager = NewDeduplicationManager(KeyFields, TRUE, NoFile)
    /\ storage_file = NoFile
    /\ collected_notices = << >>
    /\ total_count = 0
    /\ stats = NewStats
    /\ consecutive_duplicates = 0
    /\ processor_consecutive_duplicates = 0
    /\ early_exit_threshold = MaxThreshold
    /\ pc = "idle"
    /\ current_page_num = 1
    /\ idx = 0
    /\ runs = 0
    /\ sinks = << >>
    /\ raised = "none"
    /\ max_pages = MaxPages
    /\ failed_items = << >>
    /\ detail_tabs = 0
    /\ stats_reports = 0
    /\ browser_page = 0
    /\ hist = LoadHist(0, "none", NewCheckpointManager, NoFile, FALSE, FALSE)

NextLoad ==
    \/ LdStoreCall
    \/ LdFileChanges
    \/ LdLoadCheckpoint
    \/ LdRun

SpecLoad == InitLoad /\ [][NextLoad]_vars

\* a file that is missing, unreadable, not valid JSON, or whose state is no
\* value of CrawlState
Unloadable(file) ==
    \/ file.kind # "json"
    \/ file.data.state \notin {"initialized", "in_progress", "paused", "completed",
                               "failed"}

\* C29: load_checkpoint on a missing, unreadable, invalid or unknown-state
\* file returns False and leaves the store exactly as it was before the
\* call, and a run that asked to resume from such a file has the checkpoint
\* initialize_crawl makes.
C29_FailedLoadLeavesStore ==
    /\ (hist.call = "load" /\ Unloadable(hist.file)) =>
          /\ ~hist.found
          /\ checkpoint_manager = hist.before
    /\ (hist.call = "run" /\ hist.resume /\ Unloadable(hist.file)) =>
          /\ ~hist.found
          /\ checkpoint_manager =
                initialize_crawl(NewCheckpointManager, [target |-> "NuriJangter"])

\* a store that holds processed and failed items met a file with an unknown
\* state value and kept them
C29_Witness ==
    /\ hist.call = "load"
    /\ hist.file.kind = "json"
    /\ Unloadable(hist.file)
    /\ hist.file.data.processed_items # checkpoint_manager.processed_items
    /\ checkpoint_manager.processed_items # << >>
    /\ checkpoint_manager.failed_items # << >>

\* ===================================================================
\* SpecTabs: the browser tabs of the detail fetch. The click on the link of
\* a row can open the detail in a new tab; the fetch waits for the tab to
\* load, parses it and closes it, and falls back to the modal and in-page
\* paths when the new-tab path did not get that far.
\* ===================================================================
MaxTabItems == 3      \* workflow invocations in one behaviour of SpecTabs

\* what the site does at one attempt: whether the click opens a new tab,
\* whether wait_for_load_state returns for it, what the list page shows
\* when the fetch looks for a modal or in-page detail, and the critical
\* fields the detail view adds
TabEnvs ==
    {env \in [tab_opens : BOOLEAN, tab_loads : BOOLEAN,
              fallback : {"modal", "in_page", "none"},
              detail_filled : {{}, {"opening_date"}}] :
        /\ ~env.tab_opens => ~env.tab_loads
        /\ (~env.tab_loads /\ env.fallback = "none") => env.detail_filled = {}}

\* Method 1 of the fetch: expect_page times out (no tab), or the tab is
\* there and wait_for_load_state raises (the except clause logs and closes
\* nothing), or the tab loads, is parsed (parse_page catches its own
\* exceptions) and is closed before the validation: the tabs it opened and
\* closed, and detail_opened
new_tab_method(env) ==
    IF ~env.tab_opens THEN [opened |-> 0, closed |-> 0, detail_opened |-> FALSE]
    ELSE IF ~env.tab_loads THEN [opened |-> 1, closed |-> 0, detail_opened |-> FALSE]
    ELSE [opened |-> 1, closed |-> 1, detail_opened |-> TRUE]

\* the attempt as the opening paths meet it: the row and its link are there
OpeningOf(env) ==
    [visible |-> TRUE, soft_works |-> TRUE, hard_works |-> TRUE,
     site_soft |-> GoodPager, site_hard |-> GoodPager, link_visible |-> TRUE,
     opening |-> IF new_tab_method(env).detail_opened THEN "new_tab" ELSE env.fallback,
     detail_filled |-> env.detail_filled]

\* the detail tabs the attempts 1..n of one fetch left open
RECURSIVE tabs_left_open(_, _)
tabs_left_open(envs, n) ==
    IF n = 0 THEN 0
    ELSE new_tab_method(envs[n]).opened - new_tab_method(envs[n]).closed
            + tabs_left_open(envs, n - 1)

TabsOther == <<stats_reports, save_pc, storage_file, early_exit_threshold, pc, current_page_num,
               idx, runs, sinks, raised, max_pages, failed_items, browser_page>>

\* the implementation, the invocations so far, the class and the fetch
\* outcome of the last one, and the new tabs its fetch opened
TabsHist(impl, class, fetch, opened) ==
    [impl |-> impl, n |-> hist.n + 1, class |-> class,
     kind |-> IF class = "new" THEN fetch.kind ELSE "none",
     error |-> IF class = "new" THEN fetch.error ELSE "",
     opened |-> IF class = "new" THEN opened ELSE 0]

\* NoticeProcessor.process_notice with fetch_detail_page
TbProcessNotice ==
    /\ hist.n < MaxTabItems
    /\ hist.impl = "processor"
    /\ \E notice_data \in FetchRows, env \in TabEnvs :
       \E fetch \in {fetch_detail_page(OpeningOf(env), notice_data, current_page_num)},
          class \in {Classify(checkpoint_manager, dedup_manager, notice_data)} :
       \E w \in {process_notice(
                    Workflow(checkpoint_manager, checkpoint_file, temp_file,
                             dedup_manager, collected_notices, total_count, stats,
                             processor_consecutive_duplicates),
                    notice_data, fetch)} :
          /\ checkpoint_manager' = w.cm
          /\ checkpoint_file' = w.file
          /\ temp_file' = w.temp
          /\ dedup_manager' = w.dm
          /\ collected_notices' = w.collected
          /\ total_count' = w.total_count
          /\ stats' = w.stats
          /\ processor_consecutive_duplicates' = w.consecutive
          /\ detail_tabs' = IF class = "new"
                            THEN detail_tabs + tabs_left_open(<<env>>, 1)
                            ELSE detail_tabs
          /\ hist' = TabsHist("processor", class, fetch, new_tab_method(env).opened)
    /\ UNCHANGED consecutive_duplicates
    /\ UNCHANGED TabsOther

\* CrawlerEngine._process_notice with _fetch_detail_page and its retries
TbEngineProcessNotice ==
    /\ hist.n < MaxTabItems
    /\ hist.impl = "engine"
    /\ \E notice_data \in FetchRows, env \in TabEnvs :
       \E again \in (IF engine_fetch_attempt(OpeningOf(env), notice_data,
                                             current_page_num).kind = "raise"
                     THEN {e \in TabEnvs : e.tab_opens /\ e.fallback = "none"}
                     ELSE {env}) :
       \E envs \in {<<env, again, again>>} :
       \E retried \in {engine_fetch_detail_page(
                          [i \in DOMAIN envs |-> OpeningOf(envs[i])],
                          notice_data, current_page_num)},
          class \in {Classify(checkpoint_manager, dedup_manager, notice_data)} :
       \E w \in {engine_process_notice(
                    Workflow(checkpoint_manager, checkpoint_file, temp_file,
                             dedup_manager, collected_notices, total_count, stats,
                             consecutive_duplicates),
                    notice_data, retried.result)} :
          /\ checkpoint_manager' = w.cm
          /\ checkpoint_file' = w.file
          /\ temp_file' = w.temp
          /\ dedup_manager' = w.dm
          /\ collected_notices' = w.collected
          /\ total_count' = w.total_count
          /\ stats' = w.stats
          /\ consecutive_duplicates' = w.consecutive
          /\ detail_tabs' = IF class = "new"
                            THEN detail_tabs + tabs_left_open(envs, retried.attempt)
                            ELSE detail_tabs
          /\ hist' = TabsHist("engine", class, retried.result,
                              new_tab_method(envs[retried.attempt]).opened)
    /\ UNCHANGED processor_consecutive_duplicates
    /\ UNCHANGED TabsOther

InitTabs ==
    /\ checkpoint_manager = initialize_crawl(NewCheckpointManager, EmptyDict)
    /\ checkpoint_file = NoFile
    /\ temp_file = NoFile
    /\ save_pc = "idle"
    /\ dedup_manager = NewDeduplicationManager(KeyFields, TRUE, NoFile)
    /\ storage_file = NoFile
    /\ collected_notices = << >>
    /\ total_count = 0
    /\ stats = NewStats
    /\ consecutive_duplicates = 0
    /\ processor_consecutive_duplicates = 0
    /\ early_exit_threshold = MaxThreshold
    /\ pc = "items"
    /\ current_page_num = 1
    /\ idx = 0
    /\ runs = 0
    /\ sinks = << >>
    /\ raised = "none"
    /\ max_pages = 0
    /\ failed_items = << >>
    /\ detail_tabs = 0
    /\ stats_reports = 0
    /\ browser_page = 1
    /\ \E impl \in {"processor", "engine"} :
          hist = [impl |-> impl, n |-> 0, class |-> "none", kind |-> "none",
                  error |-> "", opened |-> 0]

NextTabs ==
    \/ TbProcessNotice
    \/ TbEngineProcessNotice

SpecTabs == InitTabs /\ [][NextTabs]_vars

\* C30: when an invocation of the item workflow has returned, and so when
\* the next item starts, no detail tab is open, whatever the fetch met.
C30_DetailTabsClosed == detail_tabs = 0

\* ===================================================================
\* SpecWithRetry: the wrapper of utils/retry.with_retry around a function
\* that returns or raises at each invocation, one step per turn of its
\* loop. idx is the loop variable attempt, raised is what the wrapper
\* raised to its caller, hist holds the arguments of the decorator and what
\* the function, the callback and time.sleep were called with.
\* ===================================================================
WithRetryOther == <<checkpoint_manager, checkpoint_file, temp_file, save_pc,
                    dedup_manager, storage_file, collected_notices, total_count, stats,
                    consecutive_duplicates, processor_consecutive_duplicates,
                    early_exit_threshold, current_page_num, runs, sinks, max_pages,
                    browser_page, failed_items, detail_tabs, stats_reports>>

\* the exception types the wrapped function raises; KeyboardInterrupt is no
\* Exception
ExceptionTypes == {"TimeoutError", "ValueError", "KeyboardInterrupt"}

\* last_exception = None, and nothing raised yet
NoException == [type |-> "None", call |-> 0]

RECURSIVE Power(_, _)
Power(b, e) == IF e = 0 THEN 1 ELSE b * Power(b, e - 1)

\* RetryStrategy.calculate_delay
calculate_delay(strategy, attempt) ==
    LET delay == strategy.initial_delay * Power(strategy.backoff_factor, attempt)
    IN IF delay < strategy.max_delay THEN delay ELSE strategy.max_delay

\* a strategy that retries on every exception the wrapper catches
should_retry_any(strategy, exception) == TRUE

\* RetryStrategy.should_retry
should_retry(strategy, exception) == exception.type \in strategy.exceptions

\* one turn of the loop of the wrapper: func is invoked and returns, or
\* raises what the except clause does not catch, or raises an Exception:
\* one that should not be retried is raised again, else it is kept and,
\* when this was not the last attempt, on_retry and time.sleep are called
WrAttempt ==
    /\ pc = "call"
    /\ idx < hist.strategy.max_attempts
    /\ \/ /\ pc' = "returned"
          /\ raised' = NoException
          /\ idx' = idx
          /\ hist' = [hist EXCEPT !.calls = @ + 1]
       \/ \E type \in ExceptionTypes :
          \E e \in {[type |-> type, call |-> hist.calls + 1]} :
             IF type = "KeyboardInterrupt"
             THEN /\ pc' = "raised"
                  /\ raised' = e
                  /\ idx' = idx
                  /\ hist' = [hist EXCEPT !.calls = @ + 1]
             ELSE IF ~should_retry(hist.strategy, e)
             THEN /\ pc' = "raised"
                  /\ raised' = e
                  /\ idx' = idx
                  /\ hist' = [hist EXCEPT !.calls = @ + 1, !.last_exception = e]
             ELSE /\ pc' = "call"
                  /\ raised' = NoException
                  /\ idx' = idx + 1
                  /\ hist' = IF idx < hist.strategy.max_attempts - 1
                              THEN [hist EXCEPT
                                      !.calls = @ + 1, !.last_exception = e,
                                      !.on_retry = Append(@, <<idx + 1, e>>),
                                      !.sleeps = Append(@, calculate_delay(hist.strategy, idx))]
                              ELSE [hist EXCEPT !.calls = @ + 1, !.last_exception = e]
    /\ UNCHANGED WithRetryOther

\* the wrapper after its loop: raise last_exception, or RuntimeError when
\* there is none
WrRaiseLast ==
    /\ pc = "call"
    /\ idx >= hist.strategy.max_attempts
    /\ pc' = "raised"
    /\ raised' = IF hist.last_exception # NoException THEN hist.last_exception
                  ELSE [type |-> "RuntimeError", call |-> 0]
    /\ UNCHANGED <<idx, hist>>
    /\ UNCHANGED WithRetryOther

InitWithRetry ==
    /\ checkpoint_manager = NewCheckpointManager
    /\ checkpoint_file = NoFile
    /\ temp_file = NoFile
    /\ save_pc = "idle"
    /\ dedup_manager = NewDeduplicationManager(KeyFields, TRUE, NoFile)
    /\ storage_file = NoFile
    /\ collected_notices = << >>
    /\ total_count = 0
    /\ stats = NewStats
    /\ consecutive_duplicates = 0
    /\ processor_consecutive_duplicates = 0
    /\ early_exit_threshold = MaxThreshold
    /\ pc = "call"
    /\ current_page_num = 1
    /\ idx = 0
    /\ runs = 0
    /\ sinks = << >>
    /\ raised = NoException
    /\ max_pages = 0
    /\ failed_items = << >>
    /\ detail_tabs = 0
    /\ stats_reports = 0
    /\ browser_page = 0
    /\ \E n \in 0..MaxMaxAttempts, max_delay \in {3, 10},
          exceptions \in {{"TimeoutError", "ValueError"}, {"TimeoutError"}} :
          hist = [strategy |-> [max_attempts |-> n, initial_delay |-> 1,
                                backoff_factor |-> 2, max_delay |-> max_delay,
                                exceptions |-> exceptions],
                  calls |-> 0, last_exception |-> NoException,
                  on_retry |-> << >>, sleeps |-> << >>]

NextWithRetry ==
    \/ WrAttempt
    \/ WrRaiseLast

SpecWithRetry == InitWithRetry /\ [][NextWithRetry]_vars

\* C40: the wrapper invokes the function at most max_attempts times and not
\* again after an invocation that returned; an exception the strategy does
\* not retry is raised from the invocation that raised it; time.sleep and
\* on_retry are called once after each failed invocation but the last
\* possible one, with the delay of calculate_delay and the attempt number;
\* after max_attempts failed invocations the exception of the last one is
\* raised; and with the max_attempts = 3 of the engine's detail fetch the
\* ladder runs at most 3 times.
C40_WithRetryBounded ==
    LET n == hist.strategy.max_attempts
        ended == pc \in {"returned", "raised"}
    IN /\ hist.calls <= n
       /\ n = MaxAttempts => hist.calls <= 3
       /\ Len(hist.sleeps) = Len(hist.on_retry)
       /\ \A i \in DOMAIN hist.sleeps :
             /\ hist.sleeps[i] = calculate_delay(hist.strategy, i - 1)
             /\ hist.on_retry[i][1] = i
             /\ hist.on_retry[i][2].call = i
             /\ hist.on_retry[i][2].type \in hist.strategy.exceptions
       /\ pc = "call" =>
             /\ hist.calls = idx
             /\ Len(hist.sleeps) = IF idx < n \/ n = 0 THEN idx ELSE n - 1
             /\ hist.calls > 0 => /\ hist.last_exception.call = hist.calls
                                  /\ hist.last_exception.type \in hist.strategy.exceptions
       /\ ended => Len(hist.sleeps) = IF hist.calls = 0 THEN 0 ELSE hist.calls - 1
       /\ pc = "raised" =>
             \/ /\ raised.type = "RuntimeError" /\ n = 0 /\ hist.calls = 0
             \/ /\ raised.call = hist.calls
                /\ \/ raised.type \notin hist.strategy.exceptions
                   \/ hist.calls = n

\* C40 witness: with max_attempts = 3 the function failed three times, the
\* wrapper slept twice and raised the third exception
C40_Witness ==
    /\ hist.strategy.max_attempts = MaxAttempts
    /\ pc = "raised"
    /\ hist.calls = 3
    /\ hist.sleeps = <<1, 2>>
    /\ raised.call = 3
    /\ raised.type \in hist.strategy.exceptions

====
